---- MODULE Spec2Model ----
(***************************************************************************)
(* The tool-calling orchestration loop of the FoodieSpot chatbot:          *)
(* get_response and get_response_stream of chatbot_utils.py, with the      *)
(* dispatch of tool-call requests to ChatbotFunctions.                     *)
(*                                                                         *)
(* One behaviour is one call of get_response (mode = "sync") or of         *)
(* get_response_stream (mode = "stream").  The completion service, the     *)
(* advisor model and the tool bodies are the environment: every outcome    *)
(* they can produce is a nondeterministic choice of the action that calls  *)
(* them.  Responses of the ollama client are taken well-formed (they have  *)
(* a "message", and every tool call has function.name and                  *)
(* function.arguments, and a content, where present, is a string).         *)
(***************************************************************************)
EXTENDS Integers, Sequences, FiniteSets, TLC

(***************************************************************************)
(* Program constants                                                       *)
(***************************************************************************)
MAX_TOOL_CALLS_PER_CONVERSATION == 5

CONTEXT_WINDOW_LIMIT == 20

(***************************************************************************)
(* Bounds of the model                                                     *)
(***************************************************************************)
\* The plain response of the completion service is one message (one chunk,
\* when streamed) with one well-formed call of a tool and no text.  Over one
\* turn the service departs from it at most MaxOddities times, counting one
\* for each piece of text, each request that is not a well-formed call of a
\* tool, each request after the first of a response and each chunk after the
\* first of a response.
MaxOddities == 2

(***************************************************************************)
(* Texts.  A text is a sequence of pieces; "" is the empty sequence.       *)
(***************************************************************************)
SYSTEM_PROMPT == <<"SYSTEM_PROMPT">>

AdvisorEmptyText == <<"NO_TOOL_CALLS_NEEDED: Advisor response was empty">>

AdvisorErrorText == <<"NO_TOOL_CALLS_NEEDED: Advisor error occurred">>

BudgetText == <<"I've reached the maximum number of tool calls for this conversation.">>

FollowUpErrorText == <<"I encountered an error processing your request. Please try again.">>

OuterErrorText == <<"Error: ">>

ToolErrorText == <<"Error: Tool execution error for ">>

ContentPiece == <<"text">>

(***************************************************************************)
(* ChatbotFunctions: the attributes getattr(ChatFn, name) can resolve.     *)
(***************************************************************************)
\* the nine tools advertised by get_descriptions
ToolNames ==
  { "get_matching_locations", "get_cuisine_by_area", "get_all_cuisines",
    "get_area_by_cuisine", "get_area_by_ambience", "get_ambience_by_area",
    "get_all_ambiences", "recommend_restaurants", "make_reservation" }

\* the public attributes of the class that are callable
CallableAttrs == ToolNames \cup { "get_descriptions" }

\* the public attributes of the class (the name-mangled private ones are
\* not reachable under their source names)
ClassAttrs == CallableAttrs \cup { "MIN_CONFIDENCE_THRESHOLD" }

\* the keyword parameters each callable accepts
Params(fn) ==
  CASE fn \in { "get_matching_locations" } -> { "area", "top_n" }
    [] fn \in { "get_cuisine_by_area", "get_ambience_by_area" } -> { "area" }
    [] fn = "get_area_by_cuisine" -> { "cuisine" }
    [] fn = "get_area_by_ambience" -> { "ambience" }
    [] fn = "recommend_restaurants" -> { "area", "cuisine", "ambience" }
    [] fn = "make_reservation" ->
         { "restaurant", "name", "phone_number", "headcount", "time_slot" }
    [] OTHER -> {}

\* the parameters without a default
Required(fn) ==
  CASE fn = "get_matching_locations" -> { "area" }
    [] fn = "recommend_restaurants" -> { "area" }
    [] OTHER -> Params(fn)

\* chosen_fn(**params) binds: no parameter missing, none unexpected
Binds(fn, params) == Required(fn) \subseteq params /\ params \subseteq Params(fn)

\* a tool body that can raise past its own handlers (make_reservation has
\* no try/except; the lookups catch everything and return an error text);
\* make_reservation returns a rejection, "returns", or appends and writes
\* the reservation and returns the success, "stores"
BodyOutcomes(fn) ==
  IF fn = "make_reservation" THEN { "returns", "raises", "stores" } ELSE { "returns" }

\* One tool call of the loop body, from the lookup of the name to the value or
\* the exception: getattr, the parse of the arguments, the call.
\*   invoked: a callable of ChatbotFunctions was called
\*   raised : an exception reached the loop's except clause
\*   stored : a reservation was added to the reservation store
Dispatch(call, body) ==
  IF call.name \notin ClassAttrs
    THEN [invoked |-> FALSE, raised |-> TRUE, stored |-> FALSE]      \* AttributeError
    ELSE IF ~call.parses
      THEN [invoked |-> FALSE, raised |-> TRUE, stored |-> FALSE]    \* json.loads fails
      ELSE IF call.name \notin CallableAttrs
        THEN [invoked |-> FALSE, raised |-> TRUE, stored |-> FALSE]  \* not callable
        ELSE IF ~Binds(call.name, call.arguments)
          THEN [invoked |-> FALSE, raised |-> TRUE, stored |-> FALSE] \* TypeError
          ELSE [invoked |-> TRUE, raised |-> body = "raises", stored |-> body = "stores"]

\* str(fn_res) of a call that returned
ToolResultText(fn) == <<"result of ", fn>>

(***************************************************************************)
(* Messages and the inputs the environment may supply                      *)
(***************************************************************************)
Message(role, content, name, tool_calls) ==
  [role |-> role, content |-> content, name |-> name, tool_calls |-> tool_calls]

\* the caller's history after t completed exchanges: user, assistant, ..., user
HistoryOf(t) ==
  [i \in 1..(2 * t + 1) |->
     IF i % 2 = 1 THEN Message("user", <<"prompt">>, "", <<>>)
                  ELSE Message("assistant", <<"reply">>, "", <<>>)]

\* the histories a call starts from: a first prompt, and a prompt after one
\* completed exchange
Histories == { HistoryOf(0), HistoryOf(1) }

\* the tool-call requests the completion service may issue: arguments is the
\* set of keyword names supplied, parses says the arguments are a mapping or
\* a string json.loads decodes
ToolCallRequests ==
  { [name |-> "get_all_cuisines", arguments |-> {}, parses |-> TRUE],
    [name |-> "get_all_cuisines", arguments |-> {}, parses |-> FALSE],
    [name |-> "get_all_cuisines", arguments |-> { "area" }, parses |-> TRUE],
    [name |-> "make_reservation", arguments |-> {}, parses |-> TRUE],
    [name |-> "make_reservation", arguments |-> Params("make_reservation"), parses |-> TRUE],
    [name |-> "get_descriptions", arguments |-> {}, parses |-> TRUE],
    [name |-> "no_such_tool", arguments |-> {}, parses |-> TRUE] }

\* the plain request: a well-formed call of a lookup tool
PlainRequests ==
  { c \in ToolCallRequests : c.name = "get_all_cuisines" /\ c.arguments = {} /\ c.parses }

CallLists(n) == UNION { [1..k -> ToolCallRequests] : k \in 0..n }

OddCount(calls) == Cardinality({ i \in DOMAIN calls : calls[i] \notin PlainRequests })

Contents == { <<>>, ContentPiece }

\* a "message" of the completion service
ModelMessages == [content : Contents, tool_calls : CallLists(MaxOddities + 1)]

\* a chunk of a streamed response carries text, one tool-call request, or both
ModelChunks ==
  { c \in [content : Contents, tool_calls : CallLists(1)] :
      c.content # <<>> \/ c.tool_calls # <<>> }

RECURSIVE AllCalls(_)
\* the tool-call requests of a sequence of chunks, in order
AllCalls(chunks) ==
  IF chunks = <<>> THEN <<>> ELSE Head(chunks).tool_calls \o AllCalls(Tail(chunks))

RECURSIVE AllContent(_)
AllContent(chunks) ==
  IF chunks = <<>> THEN <<>> ELSE Head(chunks).content \o AllContent(Tail(chunks))

\* a streamed response: its chunks, and whether reading past the last chunk
\* raises (no chunks and fails: the call itself failed)
Streams ==
  [chunks : UNION { [1..m -> ModelChunks] : m \in 0..(MaxOddities + 1) }, fails : BOOLEAN]

Excess(n) == IF n > 1 THEN n - 1 ELSE 0

\* how far a response (its chunks) departs from the plain response
Oddities(chunks) ==
  Len(AllContent(chunks)) + OddCount(AllCalls(chunks))
    + Excess(Len(AllCalls(chunks))) + Excess(Len(chunks))

\* the responses the service can still give when d departures are left
\* (written as images, so that each set is enumerated once)
MessagesWithin ==
  [d \in 0..MaxOddities |-> { r : r \in { m \in ModelMessages : Oddities(<<m>>) <= d } }]

StreamsWithin ==
  [d \in 0..MaxOddities |-> { r : r \in { s \in Streams : Oddities(s.chunks) <= d } }]

\* what get_tool_call_recommendations can return
AdvisorOutcomes == { <<"recommendations">>, AdvisorEmptyText, AdvisorErrorText }

(***************************************************************************)
(* Pure helpers of chatbot_utils.py                                        *)
(***************************************************************************)
LastN(s, n) == IF Len(s) <= n THEN s ELSE SubSeq(s, Len(s) - n + 1, Len(s))

manage_context_window(msgs) == LastN(msgs, CONTEXT_WINDOW_LIMIT)

AdvisorMessage(recommendations) ==
  Message("system", <<"=== TOOL CALL ADVISOR RECOMMENDATIONS ===">> \o recommendations, "", <<>>)

\* mutant: the advisor message is put right behind the system prompt
InjectAdvisorBehindPrompt(msgs, recommendations) ==
  IF msgs = <<>> THEN msgs
  ELSE <<Head(msgs), AdvisorMessage(recommendations)>> \o Tail(msgs)

inject_advisor_after_user_message(msgs, recommendations) ==
  IF msgs = <<>> THEN msgs ELSE Append(msgs, AdvisorMessage(recommendations))

\* lines 461-468 / 670-677: the outbound list before the first completion call
ComposeMessages(msgs, recommendations) ==
  inject_advisor_after_user_message(
    <<Message("system", SYSTEM_PROMPT, "", <<>>)>> \o manage_context_window(msgs),
    recommendations)

\* mutant: the budget test is off by one
LoopConditionOffByOne(r, count) ==
  r.tool_calls # <<>> /\ count <= MAX_TOOL_CALLS_PER_CONVERSATION

\* the loop condition of both variants
LoopCondition(r, count) ==
  r.tool_calls # <<>> /\ count < MAX_TOOL_CALLS_PER_CONVERSATION

\* get_response, lines 797-800: the answer once the loop is left
AfterLoop(resp, count) ==
  IF count >= MAX_TOOL_CALLS_PER_CONVERSATION /\ resp = <<>> THEN BudgetText ELSE resp

\* mutant: no outermost except clause, the exception leaves the function
GetResponseNoExcept(resp) == [response |-> resp, raised |-> TRUE]

\* get_response, lines 804-807: the outermost except clause
GetResponseExcept(resp) == [response |-> OuterErrorText, raised |-> FALSE]

\* the tool-role message of one executed call, lines 750-756 and 759-770
ToolMessage(call, d) ==
  IF d.raised
    THEN Message("tool", ToolErrorText \o <<call.name>>, call.name, <<>>)
    ELSE Message("tool", ToolResultText(call.name), call.name, <<>>)

\* mutant: the except clause of the tool loop appends nothing
ToolMessagesErrorDropped(call, d) == IF d.raised THEN <<>> ELSE <<ToolMessage(call, d)>>

\* what one pass of the tool loop appends: the result, or the error text of
\* the except clause
ToolMessages(call, d) == <<ToolMessage(call, d)>>

\* mutant: the assistant message of the round is not appended
WithAssistantOmitted(msgs, r) == msgs

\* lines 540-546 / 719-725: the assistant message of the round is appended
WithAssistant(msgs, r) ==
  Append(msgs, Message("assistant", r.content, "", r.tool_calls))

\* mutant: a history within the context window is itself the outbound list
SharesCallerListWhenShort(msgs) == Len(msgs) <= CONTEXT_WINDOW_LIMIT

\* lines 461-468 / 670-677: formatted_messages is a new list, extended with
\* the managed messages and copied by inject_advisor_after_user_message; it
\* is never the list of the caller
SharesCallerList(msgs) == FALSE

\* the caller's list after an assignment or an append to formatted_messages
CallerMessages(msgs, outbound) == IF SharesCallerList(msgs) THEN outbound ELSE msgs

\* mutant: the requests are taken from the last to the first
CurrentCallReversed(calls, i) == calls[Len(calls) - i]

\* lines 549 / 729: the for loop takes the requests in the order of the list
\* (calls done so far: i)
CurrentCall(calls, i) == calls[i + 1]

\* mutant: a failing call ends the round
NextToolIndexBreakOnError(i, n, d) == IF d.raised THEN n ELSE i + 1

\* the for loop over the tool calls goes on with the next call, whether the
\* call returned or the except clause ran (calls done: i of n)
NextToolIndex(i, n, d) == i + 1

(***************************************************************************)
(* State of one call of get_response / get_response_stream                 *)
(***************************************************************************)
VARIABLES
  mode,               \* "sync": get_response, "stream": get_response_stream
  pc,                 \* "start", "initial", "loop", "exec", "done"
  messages,           \* the caller's list (the argument)
  formatted_messages, \* the outbound list
  res,                \* res / full_response: the message the loop works on
  tool_index,         \* calls of res.tool_calls already executed this round
  tool_call_count,
  response,           \* get_response's return value
  raised,             \* an exception left the function
  yielded,            \* what get_response_stream has yielded, in order
  n_calls,            \* main-model completion calls so far
  last_sent,          \* the message list of the latest completion call
  invoked,            \* names of the callables called so far, in order
  oddities,           \* departures of the service from the plain response so far
  all_requested,      \* every completion call so far returned a response with
                      \* at least one tool-call request
  ran,                \* tool calls of the latest response executed so far
  skipped,            \* tool calls of the latest response in chunks not used
  unread              \* chunks of the latest response not read from its stream

\* the state of one call of get_response / get_response_stream
loopvars ==
  << mode, pc, messages, formatted_messages, res, tool_index, tool_call_count,
     response, raised, yielded, n_calls, last_sent, invoked, oddities,
     all_requested, ran, skipped, unread >>

(***************************************************************************)
(* State of ChatbotFunctions: the reservation store and its callers, and   *)
(* one call of get_matching_locations                                      *)
(***************************************************************************)
VARIABLES
  scenario,           \* what the callers of make_reservation do in this behaviour
  offered,            \* the arguments of the calls of scenario "arguments"
  reservations_data,  \* __reservations_data of each process
  file,               \* the contents of ./data/reservations_data.json
  call_pc,            \* where each turn's call of make_reservation stands
  call_args,          \* the arguments of each turn's latest call
  call_result,        \* the outcome of each turn's latest completed call
  file_buffer,        \* what each turn's open file object holds unflushed
  booked,             \* records appended so far, over all processes
  concurrent,         \* the turns with a booking in progress at some time
                      \* during each turn's latest booking (a call past the checks)
  file_before,        \* the file as it was when the booking each turn has in
                      \* progress began
  retry,              \* each turn's latest booking repeats, with the same
                      \* arguments, the turn's call before it, whose write failed
  restaurants_data,   \* the catalog get_matching_locations reads
  area,               \* the area argument of get_matching_locations
  top_matches,        \* what process.extract returned, as catalog indices
  match_result,       \* what get_matching_locations returned
  tool_call,          \* the call of a lookup tool made in this behaviour
  tool_result,        \* what that call returned
  repeat_result,      \* what the same call returned when it was made again
  text,               \* the argument of parse_thinking_response
  thinking_content,   \* the first value it returned
  main_response,      \* the second value it returned
  script,             \* the complete responses the completion service gives
  sync_run,           \* what get_response did with them
  stream_run,         \* what get_response_stream did with them
  session_messages,   \* st.session_state.messages, the role of each message
  current_thread_id,  \* st.session_state.current_thread_id, 0 for None
  threads_list,       \* the ids of st.session_state.threads_list
  threads,            \* the thread store: the messages in each thread's file
  issued,             \* the thread ids uuid4 has given so far
  event               \* what the latest script run of the page did

resvars ==
  << scenario, offered, reservations_data, file, call_pc, call_args,
     call_result, file_buffer, booked, concurrent, file_before, retry >>

matchvars == << restaurants_data, area, top_matches, match_result >>

toolvars == << tool_call, tool_result, repeat_result >>

parsevars == << text, thinking_content, main_response >>

equivvars == << script, sync_run, stream_run >>

sessionvars ==
  << session_messages, current_thread_id, threads_list, threads, issued, event >>

appvars == << parsevars, equivvars, sessionvars >>

vars == << loopvars, resvars, matchvars, toolvars, appvars >>

(***************************************************************************)
(* Argument values.  The arguments of a tool call are decoded JSON: a      *)
(* value is its Python type and its content.  A bool is an int to          *)
(* isinstance and counts as 0 or 1; a str is a sequence of pieces (of      *)
(* characters, where the code looks at characters).                        *)
(***************************************************************************)
PyStr(s) == [type |-> "str", v |-> s]

PyInt(n) == [type |-> "int", v |-> n]

PyBool(b) == [type |-> "bool", v |-> IF b THEN 1 ELSE 0]

PyFloat(n) == [type |-> "float", v |-> n]

PyNone == [type |-> "NoneType", v |-> 0]

\* a time_slot mapping; a key that is missing is read as None by .get
PyTimeSlot(hour, minute) == [type |-> "dict", v |-> [hour |-> hour, minute |-> minute]]

IsInt(x) == x.type \in { "int", "bool" }

IsStr(x) == x.type = "str"

IsDict(x) == x.type = "dict"

UpperCase ==
  << "A", "B", "C", "D", "E", "F", "G", "H", "I", "J", "K", "L", "M", "N", "O",
     "P", "Q", "R", "S", "T", "U", "V", "W", "X", "Y", "Z" >>

LowerCase ==
  << "a", "b", "c", "d", "e", "f", "g", "h", "i", "j", "k", "l", "m", "n", "o",
     "p", "q", "r", "s", "t", "u", "v", "w", "x", "y", "z" >>

\* str.lower, on one character
LowerChar(c) ==
  IF \E i \in DOMAIN UpperCase : UpperCase[i] = c
    THEN LowerCase[CHOOSE i \in DOMAIN UpperCase : UpperCase[i] = c]
    ELSE c

Lower(s) == [i \in DOMAIN s |-> LowerChar(s[i])]

Digits == { "0", "1", "2", "3", "4", "5", "6", "7", "8", "9" }

\* re.fullmatch(r"\d{10}", s)
TenDigits(s) == Len(s) = 10 /\ \A i \in DOMAIN s : s[i] \in Digits

(***************************************************************************)
(* ChatbotFunctions.make_reservation: the checks                           *)
(***************************************************************************)
\* __restaurants_data, as far as make_reservation reads it
RestaurantsData ==
  << [name |-> PyStr(<<"Spice Garden">>), seating_capacity |-> 2],
     [name |-> PyStr(<<"Curry Leaf">>), seating_capacity |-> 3] >>

\* next((r for r in __restaurants_data if r["name"] == restaurant), None):
\* the index of the first record with the name, 0 for None
MatchingRestaurant(restaurant) ==
  IF \E i \in DOMAIN RestaurantsData : RestaurantsData[i].name = restaurant
    THEN CHOOSE i \in DOMAIN RestaurantsData :
           /\ RestaurantsData[i].name = restaurant
           /\ \A j \in 1..(i - 1) : RestaurantsData[j].name # restaurant
    ELSE 0

PlaceholderError ==
  <<"Need the following details to make reservation: name, phone number, head count and time slot. Ask the user for these details.">>

RestaurantError == <<"Invalid restaurant name. Please choose a valid FoodieSpot location.">>

PhoneError == <<"Invalid phone number. It must be a 10-digit number.">>

HeadcountError == <<"Invalid headcount. It must be a positive number.">>

CapacityError(capacity) == <<"Requested headcount exceeds seating capacity of ", capacity>>

TimeSlotError == <<"Missing or invalid time_slot.">>

HourError == <<"Invalid 'hour' in time_slot. Must be between 0 and 23.">>

MinuteError == <<"Invalid 'minute' in time_slot. Must be between 0 and 59.">>

AttributeErrorText == <<"AttributeError: object has no attribute 'lower'">>

OSErrorText == <<"OSError">>

NoReservation == [restaurant |-> PyNone]

\* what a call of make_reservation gives its caller
Failure(error) ==
  [success |-> FALSE, raised |-> FALSE, error |-> error, reservation |-> NoReservation]

Raises(exception) ==
  [success |-> FALSE, raised |-> TRUE, error |-> exception, reservation |-> NoReservation]

Success(reservation) ==
  [success |-> TRUE, raised |-> FALSE, error |-> <<>>, reservation |-> reservation]

\* the verdict of a call that got past every check
Valid == [success |-> TRUE, raised |-> FALSE, error |-> <<>>, reservation |-> NoReservation]

\* lines 641-647: name.lower() == "user" or phone_number.lower() == "user"
PlaceholderCheck(a) ==
  IF ~IsStr(a.name) THEN Raises(AttributeErrorText)
  ELSE IF Lower(a.name.v) = <<"u", "s", "e", "r">> THEN Failure(PlaceholderError)
  ELSE IF ~IsStr(a.phone_number) THEN Raises(AttributeErrorText)
  ELSE IF Lower(a.phone_number.v) = <<"u", "s", "e", "r">> THEN Failure(PlaceholderError)
  ELSE Valid

\* lines 691-710: the checks of time_slot
TimeSlotCheck(a) ==
  IF ~IsDict(a.time_slot) THEN Failure(TimeSlotError)
  ELSE LET hour == a.time_slot.v.hour
           minute == a.time_slot.v.minute
       IN IF ~(IsInt(hour) /\ 0 <= hour.v /\ hour.v <= 23) THEN Failure(HourError)
          ELSE IF ~(IsInt(minute) /\ 0 <= minute.v /\ minute.v <= 59)
            THEN Failure(MinuteError)
            ELSE Valid

\* mutant: the phone number is matched at its start only (re.match)
PhoneCheckAtStart(a) ==
  IF ~(IsStr(a.phone_number) /\ Len(a.phone_number.v) >= 10
         /\ TenDigits(SubSeq(a.phone_number.v, 1, 10)))
    THEN Failure(PhoneError)
    ELSE Valid

\* lines 661-669: the check of phone_number
PhoneCheck(a) ==
  IF ~(IsStr(a.phone_number) /\ TenDigits(a.phone_number.v))
    THEN Failure(PhoneError)
    ELSE Valid

\* mutant: the capacity itself is refused
HeadcountCheckOffByOne(a, capacity) ==
  IF ~IsInt(a.headcount) \/ a.headcount.v <= 0 THEN Failure(HeadcountError)
  ELSE IF a.headcount.v >= capacity THEN Failure(CapacityError(capacity))
  ELSE Valid

\* lines 671-686: the checks of headcount, for the seating capacity of the
\* restaurant matched
HeadcountCheck(a, capacity) ==
  IF ~IsInt(a.headcount) \/ a.headcount.v <= 0 THEN Failure(HeadcountError)
  ELSE IF a.headcount.v > capacity THEN Failure(CapacityError(capacity))
  ELSE Valid

\* seating_capacity of the restaurant matched
Capacity(restaurant) == RestaurantsData[MatchingRestaurant(restaurant)].seating_capacity

\* lines 641-710: the checks of make_reservation, in the order of the code
Validation(a) ==
  IF PlaceholderCheck(a) # Valid THEN PlaceholderCheck(a)
  ELSE IF MatchingRestaurant(a.restaurant) = 0 THEN Failure(RestaurantError)
  ELSE IF PhoneCheck(a) # Valid THEN PhoneCheck(a)
  ELSE IF HeadcountCheck(a, Capacity(a.restaurant)) # Valid
    THEN HeadcountCheck(a, Capacity(a.restaurant))
  ELSE TimeSlotCheck(a)

\* lines 713-719
new_reservation(a) ==
  [restaurant |-> a.restaurant, name |-> a.name, phone_number |-> a.phone_number,
   headcount |-> a.headcount,
   time_slot |-> PyTimeSlot(a.time_slot.v.hour, a.time_slot.v.minute)]

(***************************************************************************)
(* The arguments the callers of make_reservation supply                    *)
(***************************************************************************)
\* at most MaxBookings records are appended in one behaviour
MaxBookings == 2

Restaurants ==
  { PyStr(<<"Spice Garden">>), PyStr(<<"Curry Leaf">>), PyStr(<<"Nowhere">>), PyNone }

Names ==
  { PyStr(<<"A", "s", "h", "a">>), PyStr(<<"U", "s", "e", "r">>), PyNone }

PhoneNumbers ==
  { PyStr(<<"9", "8", "7", "6", "5", "4", "3", "2", "1", "0">>),
    PyStr(<<"1", "2", "3", "4", "5">>),
    PyStr(<<"9", "8", "7", "6", "5", "4", "3", "2", "1", "0", "0">>),
    PyStr(<<"9", "8", "7", "6", "5", "x", "3", "2", "1", "0">>),
    PyStr(<<"u", "s", "e", "r">>),
    PyInt(12345) }

Headcounts ==
  { PyInt(0), PyInt(1), PyInt(2), PyInt(3), PyInt(4), PyBool(TRUE), PyFloat(2),
    PyStr(<<"2">>) }

Hours ==
  { PyInt(-1), PyInt(0), PyInt(23), PyInt(24), PyBool(TRUE), PyStr(<<"7">>), PyNone }

Minutes == { PyInt(-1), PyInt(0), PyInt(59), PyInt(60), PyNone }

TimeSlots == { PyNone } \cup { PyTimeSlot(h, m) : h \in Hours, m \in Minutes }

Arguments ==
  [restaurant : Restaurants, name : Names, phone_number : PhoneNumbers,
   headcount : Headcounts, time_slot : TimeSlots]

\* a booking that passes every check, for the restaurant at index i of the
\* catalog and its full capacity
Booking(i) ==
  [restaurant |-> RestaurantsData[i].name,
   name |-> PyStr(<<"A", "s", "h", "a">>),
   phone_number |-> PyStr(<<"9", "8", "7", "6", "5", "4", "3", "2", "1", "0">>),
   headcount |-> PyInt(RestaurantsData[i].seating_capacity),
   time_slot |-> PyTimeSlot(PyInt(23), PyInt(59))]

\* the calls of the turns that share the store: two bookings and a call with
\* a phone number of five digits
SharedArguments ==
  { Booking(1), Booking(2),
    [Booking(1) EXCEPT !.phone_number = PyStr(<<"1", "2", "3", "4", "5">>)] }

\* no argument of a call: the turn has not called yet
NoArguments ==
  [restaurant |-> PyNone, name |-> PyNone, phone_number |-> PyNone,
   headcount |-> PyNone, time_slot |-> PyNone]

\* no outcome yet: the turn has not called, or its call has not returned
NoResult ==
  [success |-> FALSE, raised |-> FALSE, error |-> <<>>, reservation |-> NoReservation]

(***************************************************************************)
(* The processes that run the application on one data directory, and the   *)
(* conversation turns (sessions) each process serves.  A process holds its *)
(* own __reservations_data; its turns share it.                            *)
(***************************************************************************)
Procs == { "p1", "p2" }

Turns == { "a1", "a2", "b1" }

ProcOf == [t \in Turns |-> IF t = "b1" THEN "p2" ELSE "p1"]

\* the file holds the JSON text of a list of records, ...
ListFile(records) == [state |-> "list", records |-> records]

\* ... or nothing (it was opened for writing and not yet written), ...
EmptyFile == [state |-> "empty", records |-> <<>>]

\* ... or text json.load does not accept (part of one text behind another)
TornFile == [state |-> "torn", records |-> <<>>]

\* the stores a behaviour starts from
InitialStores == { <<>>, <<new_reservation(Booking(2))>> }

\* the tool state when no tool is under study
ReservationUnused ==
  /\ scenario = "none"
  /\ offered = NoArguments
  /\ reservations_data = [p \in Procs |-> <<>>]
  /\ file = ListFile(<<>>)
  /\ call_pc = [t \in Turns |-> "idle"]
  /\ call_args = [t \in Turns |-> NoArguments]
  /\ call_result = [t \in Turns |-> NoResult]
  /\ file_buffer = [t \in Turns |-> <<>>]
  /\ booked = 0
  /\ concurrent = [t \in Turns |-> {}]
  /\ file_before = [t \in Turns |-> ListFile(<<>>)]
  /\ retry = [t \in Turns |-> FALSE]

NoMatchResult == [format |-> "none", keys |-> {}, status |-> "", locations |-> <<>>]

MatchUnused ==
  /\ restaurants_data = <<>>
  /\ area = <<>>
  /\ top_matches = <<>>
  /\ match_result = NoMatchResult

\* no call, and no result
NoCall == [name |-> "", area |-> <<>>, cuisine |-> <<>>, ambience |-> <<>>]

NoToolResult ==
  [status |-> "", keys |-> {}, message |-> [template |-> "", arg |-> <<>>],
   area |-> <<>>, cuisine |-> <<>>, ambience |-> <<>>, items |-> <<>>]

ToolsUnused ==
  /\ tool_call = NoCall
  /\ tool_result = NoToolResult
  /\ repeat_result = NoToolResult

\* None
None == << "<None>" >>

NoRun == [calls |-> <<>>, rounds |-> 0, ended |-> FALSE]

\* no script run yet; thread ids are 1, 2, ..., and 0 stands for None
NoEvent == [kind |-> "", id |-> 0, ok |-> FALSE]

ParseUnused ==
  /\ text = <<>>
  /\ thinking_content = None
  /\ main_response = None

EquivUnused ==
  /\ script = <<>>
  /\ sync_run = NoRun
  /\ stream_run = NoRun

SessionUnused ==
  /\ session_messages = <<>>
  /\ current_thread_id = 0
  /\ threads_list = {}
  /\ threads = <<>>
  /\ issued = {}
  /\ event = NoEvent

AppUnused == ParseUnused /\ EquivUnused /\ SessionUnused

NoMessage == [content |-> <<>>, tool_calls |-> <<>>]

\* a call of get_response or get_response_stream with one of these histories
InitWith(histories) ==
  /\ mode \in { "sync", "stream" }
  /\ pc = "start"
  /\ messages \in histories
  /\ formatted_messages = <<>>
  /\ res = NoMessage
  /\ tool_index = 0
  /\ tool_call_count = 0
  /\ response = <<>>
  /\ raised = FALSE
  /\ yielded = <<>>
  /\ n_calls = 0
  /\ last_sent = <<>>
  /\ invoked = <<>>
  /\ oddities = 0
  /\ all_requested = TRUE
  /\ ran = <<>>
  /\ skipped = 0
  /\ unread = 0
  /\ ReservationUnused
  /\ MatchUnused
  /\ ToolsUnused
  /\ AppUnused

Init == InitWith(Histories)

\* a history within the context window, and one of 21 messages
WindowInit == InitWith({ HistoryOf(0), HistoryOf(CONTEXT_WINDOW_LIMIT \div 2) })

(***************************************************************************)
(* Lines 451-477 / 662-686: advisor call, context window, system prompt,   *)
(* advisor injection.                                                      *)
(***************************************************************************)
Start ==
  /\ pc = "start"
  /\ \E recommendations \in AdvisorOutcomes :
       formatted_messages' = ComposeMessages(messages, recommendations)
  /\ yielded' = IF mode = "stream" THEN <<"analyzing", "processing">> ELSE yielded
  /\ messages' = CallerMessages(messages, formatted_messages')
  /\ pc' = "initial"
  /\ UNCHANGED << mode, res, tool_index, tool_call_count, response,
                  raised, n_calls, last_sent, invoked, oddities, all_requested, ran,
                  skipped, unread >>
  /\ UNCHANGED << resvars, matchvars, toolvars, appvars >>

(***************************************************************************)
(* get_response, lines 688-706: the initial completion call                *)
(***************************************************************************)
InitialFails ==
  /\ pc = "initial" /\ mode = "sync"
  /\ n_calls' = n_calls + 1
  /\ last_sent' = formatted_messages
  /\ response' = GetResponseExcept(response).response
  /\ raised' = GetResponseExcept(response).raised
  /\ all_requested' = FALSE
  /\ pc' = "done"
  /\ UNCHANGED << mode, messages, formatted_messages, res, tool_index,
                  tool_call_count, yielded, invoked, oddities, ran, skipped,
                  unread >>
  /\ UNCHANGED << resvars, matchvars, toolvars, appvars >>

InitialCompletion ==
  /\ pc = "initial" /\ mode = "sync"
  /\ \E r \in MessagesWithin[MaxOddities - oddities] :
       /\ oddities' = oddities + Oddities(<<r>>)
       /\ all_requested' = (all_requested /\ r.tool_calls # <<>>)
       /\ res' = r
       /\ IF r.tool_calls = <<>>
            THEN /\ response' = r.content
                 /\ pc' = "done"
            ELSE /\ response' = response
                 /\ pc' = "loop"
  /\ n_calls' = n_calls + 1
  /\ last_sent' = formatted_messages
  /\ ran' = <<>>
  /\ UNCHANGED << mode, messages, formatted_messages, tool_index,
                  tool_call_count, raised, yielded, invoked, skipped, unread >>
  /\ UNCHANGED << resvars, matchvars, toolvars, appvars >>

(***************************************************************************)
(* Lines 530-546 / 709-725: the loop head and the start of a round         *)
(***************************************************************************)
BeginRound ==
  /\ pc = "loop"
  /\ LoopCondition(res, tool_call_count)
  /\ tool_call_count' = tool_call_count + 1
  /\ formatted_messages' = WithAssistant(formatted_messages, res)
  /\ messages' = CallerMessages(messages, formatted_messages')
  /\ tool_index' = 0
  /\ yielded' = IF mode = "stream" THEN Append(yielded, "executing") ELSE yielded
  /\ pc' = "exec"
  /\ UNCHANGED << mode, res, response, raised, n_calls, last_sent,
                  invoked, oddities, all_requested, ran, skipped, unread >>
  /\ UNCHANGED << resvars, matchvars, toolvars, appvars >>

\* lines 634-636 / 797-802: the loop condition is false
ExitLoop ==
  /\ pc = "loop"
  /\ ~LoopCondition(res, tool_call_count)
  /\ IF mode = "sync"
       THEN /\ response' = AfterLoop(response, tool_call_count)
            /\ yielded' = yielded
       ELSE /\ response' = response
            /\ yielded' = IF tool_call_count >= MAX_TOOL_CALLS_PER_CONVERSATION
                            THEN Append(yielded, "budget") ELSE yielded
  /\ pc' = "done"
  /\ UNCHANGED << mode, messages, formatted_messages, res, tool_index,
                  tool_call_count, raised, n_calls, last_sent, invoked,
                  oddities, all_requested, ran, skipped, unread >>
  /\ UNCHANGED << resvars, matchvars, toolvars, appvars >>

(***************************************************************************)
(* Lines 549-590 / 729-770: one tool call of the round                     *)
(***************************************************************************)
ExecTool ==
  /\ pc = "exec"
  /\ tool_index < Len(res.tool_calls)
  /\ LET call == CurrentCall(res.tool_calls, tool_index) IN
       \E body \in BodyOutcomes(call.name) :
         LET d == Dispatch(call, body) IN
           /\ formatted_messages' = formatted_messages \o ToolMessages(call, d)
           /\ tool_index' = NextToolIndex(tool_index, Len(res.tool_calls), d)
           /\ invoked' = IF d.invoked THEN Append(invoked, call.name) ELSE invoked
           /\ messages' = CallerMessages(messages, formatted_messages')
           /\ ran' = Append(ran, call)
           /\ booked' = IF d.stored THEN booked + 1 ELSE booked
           /\ yielded' =
                IF mode = "stream"
                  THEN yielded \o <<"using">> \o (IF d.raised THEN <<"tool_error">> ELSE <<>>)
                  ELSE yielded
  /\ UNCHANGED << mode, pc, res, tool_call_count, response, raised,
                  n_calls, last_sent, oddities, all_requested, skipped, unread >>
  /\ UNCHANGED << scenario, offered, reservations_data, file, call_pc, call_args,
                  call_result, file_buffer, concurrent, file_before, retry >>
  /\ UNCHANGED << matchvars, toolvars, appvars >>

(***************************************************************************)
(* get_response, lines 772-795: the follow-up completion call              *)
(***************************************************************************)
FollowUpFails ==
  /\ pc = "exec" /\ mode = "sync"
  /\ tool_index = Len(res.tool_calls)
  /\ n_calls' = n_calls + 1
  /\ last_sent' = formatted_messages
  /\ response' = AfterLoop(FollowUpErrorText, tool_call_count)
  /\ all_requested' = FALSE
  /\ pc' = "done"
  /\ UNCHANGED << mode, messages, formatted_messages, res, tool_index,
                  tool_call_count, raised, yielded, invoked, oddities, ran,
                  skipped, unread >>
  /\ UNCHANGED << resvars, matchvars, toolvars, appvars >>

FollowUp ==
  /\ pc = "exec" /\ mode = "sync"
  /\ tool_index = Len(res.tool_calls)
  /\ \E r \in MessagesWithin[MaxOddities - oddities] :
       /\ oddities' = oddities + Oddities(<<r>>)
       /\ all_requested' = (all_requested /\ r.tool_calls # <<>>)
       /\ res' = r
       /\ IF r.content # <<>>
            THEN /\ response' = AfterLoop(r.content, tool_call_count)
                 /\ pc' = "done"
            ELSE /\ response' = response
                 /\ pc' = "loop"
  /\ n_calls' = n_calls + 1
  /\ last_sent' = formatted_messages
  /\ ran' = <<>>
  /\ UNCHANGED << mode, messages, formatted_messages, tool_index,
                  tool_call_count, raised, yielded, invoked, skipped, unread >>
  /\ UNCHANGED << resvars, matchvars, toolvars, appvars >>

(***************************************************************************)
(* get_response_stream                                                     *)
(***************************************************************************)
\* index of the first chunk with tool-call requests, 0 when there is none
FirstToolChunk(chunks) ==
  IF \E i \in DOMAIN chunks : chunks[i].tool_calls # <<>>
    THEN CHOOSE i \in DOMAIN chunks :
           /\ chunks[i].tool_calls # <<>>
           /\ \A j \in 1..(i - 1) : chunks[j].tool_calls = <<>>
    ELSE 0

RECURSIVE DirectYields(_)
\* lines 640-653: every non-empty content is yielded as it is read
DirectYields(chunks) ==
  IF chunks = <<>> THEN <<>>
  ELSE (IF Head(chunks).content # <<>> THEN <<"content">> ELSE <<>>)
         \o DirectYields(Tail(chunks))

\* lines 607-616: the same, behind a response marker before the first content
FollowUpYields(chunks) ==
  IF DirectYields(chunks) = <<>> THEN <<>> ELSE <<"marker">> \o DirectYields(chunks)

\* lines 655-657: the outermost except clause of the generator
StreamExcept(y) == [yielded |-> Append(y, "error"), raised |-> FALSE]

\* lines 634-636: the notice once the loop is left
StreamAfterLoop(y, count) ==
  IF count >= MAX_TOOL_CALLS_PER_CONVERSATION THEN Append(y, "budget") ELSE y

\* lines 505-527: the first chunk with the later chunks merged into it
MergeChunks(chunks) ==
  [content |-> AllContent(chunks), tool_calls |-> AllCalls(chunks)]

\* lines 619-625: the response the loop goes on with after a follow-up stream
\* whose k-th chunk is the first with tool-call requests
FollowUpMessage(chunks, k) ==
  [content |-> chunks[k].content, tool_calls |-> chunks[k].tool_calls]

\* lines 479-528 and 638-653: the initial completion call, streamed
StreamInitial ==
  /\ pc = "initial" /\ mode = "stream"
  /\ \E s \in StreamsWithin[MaxOddities - oddities] :
       /\ oddities' = oddities + Oddities(s.chunks)
       /\ all_requested' = (all_requested /\ ~s.fails /\ AllCalls(s.chunks) # <<>>)
       /\ IF s.chunks = <<>>
            THEN \* next(stream, None) raises, or gives None
                 /\ yielded' = IF s.fails THEN StreamExcept(yielded).yielded
                                          ELSE Append(yielded, "no_response")
                 /\ raised' = IF s.fails THEN StreamExcept(yielded).raised ELSE raised
                 /\ pc' = "done"
                 /\ UNCHANGED << res, skipped >>
            ELSE IF Head(s.chunks).tool_calls # <<>>
              THEN IF s.fails
                     THEN /\ yielded' = StreamExcept(yielded).yielded
                          /\ raised' = StreamExcept(yielded).raised
                          /\ pc' = "done"
                          /\ skipped' = 0
                          /\ UNCHANGED res
                     ELSE /\ res' = MergeChunks(s.chunks)
                          /\ pc' = "loop"
                          /\ skipped' = Len(AllCalls(s.chunks)) - Len(res'.tool_calls)
                          /\ UNCHANGED << yielded, raised >>
              ELSE /\ yielded' =
                        IF s.fails
                          THEN StreamExcept(yielded \o DirectYields(s.chunks)).yielded
                          ELSE yielded \o DirectYields(s.chunks)
                   /\ raised' = IF s.fails THEN StreamExcept(yielded).raised ELSE raised
                   /\ pc' = "done"
                   /\ skipped' = IF s.fails THEN 0 ELSE Len(AllCalls(s.chunks))
                   /\ UNCHANGED res
  /\ n_calls' = n_calls + 1
  /\ last_sent' = formatted_messages
  /\ ran' = <<>>
  /\ unread' = 0
  /\ UNCHANGED << mode, messages, formatted_messages, tool_index,
                  tool_call_count, response, invoked >>
  /\ UNCHANGED << resvars, matchvars, toolvars, appvars >>

\* lines 592-632: the follow-up completion call, streamed
StreamFollowUp ==
  /\ pc = "exec" /\ mode = "stream"
  /\ tool_index = Len(res.tool_calls)
  /\ \E s \in StreamsWithin[MaxOddities - oddities] :
       LET k == FirstToolChunk(s.chunks) IN
         /\ oddities' = oddities + Oddities(s.chunks)
         /\ all_requested' = (all_requested /\ ~s.fails /\ AllCalls(s.chunks) # <<>>)
         /\ IF k > 0
              THEN \* full_response = chunk; break out of the for loop
                   /\ ~s.fails
                   /\ yielded' = yielded \o FollowUpYields(SubSeq(s.chunks, 1, k))
                   /\ res' = FollowUpMessage(s.chunks, k)
                   /\ unread' = Len(s.chunks) - k
                   /\ skipped' = Len(AllCalls(s.chunks)) - Len(res'.tool_calls)
                   /\ pc' = "loop"
              ELSE \* the stream ends (for-else) or raises: the while loop is left
                   /\ yielded' =
                        StreamAfterLoop(
                          yielded \o FollowUpYields(s.chunks)
                                  \o (IF s.fails THEN <<"followup_error">> ELSE <<>>),
                          tool_call_count)
                   /\ unread' = 0
                   /\ skipped' = 0
                   /\ pc' = "done"
                   /\ UNCHANGED res
  /\ n_calls' = n_calls + 1
  /\ last_sent' = formatted_messages
  /\ ran' = <<>>
  /\ UNCHANGED << mode, messages, formatted_messages, tool_index,
                  tool_call_count, response, raised, invoked >>
  /\ UNCHANGED << resvars, matchvars, toolvars, appvars >>

Next ==
  \/ Start
  \/ StreamInitial
  \/ StreamFollowUp
  \/ InitialFails
  \/ InitialCompletion
  \/ BeginRound
  \/ ExitLoop
  \/ ExecTool
  \/ FollowUpFails
  \/ FollowUp

Spec == Init /\ [][Next]_vars

\* The function is one thread of control: while it has not returned, its
\* next step is taken (every call it makes returns or fails).
FairSpec == Spec /\ WF_vars(Next)

WindowSpec == WindowInit /\ [][Next]_vars

(***************************************************************************)
(* Properties                                                              *)
(***************************************************************************)
Last(s) == s[Len(s)]

IsPrefix(s, t) == Len(s) <= Len(t) /\ SubSeq(t, 1, Len(s)) = s

IsToolError(m) == m.role = "tool" /\ m.content # <<>> /\ m.content[1] = ToolErrorText[1]

\* the answer is text the model wrote, not one of the fixed texts
ModelWritten == response # <<>> /\ response \notin { BudgetText, FollowUpErrorText, OuterErrorText }

\* C1: in get_response, when every completion response carries at least one
\* tool-call request, the turn ends after exactly
\* MAX_TOOL_CALLS_PER_CONVERSATION rounds with the budget-exceeded message.
C1_BudgetRun ==
  (mode = "sync" /\ pc = "done" /\ all_requested)
    => (tool_call_count = MAX_TOOL_CALLS_PER_CONVERSATION /\ response = BudgetText)

\* C2: whatever the completion service and the tools do, a call of
\* get_response or get_response_stream finishes, after at most
\* MAX_TOOL_CALLS_PER_CONVERSATION rounds and one completion call more than
\* that.
C2_Terminates ==
  /\ <>(pc = "done")
  /\ [](/\ tool_call_count <= MAX_TOOL_CALLS_PER_CONVERSATION
        /\ n_calls <= MAX_TOOL_CALLS_PER_CONVERSATION + 1)

C2_Witness ==
  /\ pc = "done"
  /\ tool_call_count = MAX_TOOL_CALLS_PER_CONVERSATION
  /\ n_calls = MAX_TOOL_CALLS_PER_CONVERSATION + 1

\* C3: get_response ends with a model-written answer only when the latest
\* response carries no tool-call requests, and the requests of a response
\* received within the budget are all executed before the turn ends.
C3_RequestsBeforeAnswer ==
  (mode = "sync" /\ pc = "done")
    => /\ ModelWritten => res.tool_calls = <<>>
       /\ (res.tool_calls # <<>> /\ tool_call_count < MAX_TOOL_CALLS_PER_CONVERSATION)
            => ran = res.tool_calls

\* every tool message answers, by position and name, one request of the
\* nearest assistant message before it, and every request has its message
Paired(msgs) ==
  /\ \A i \in DOMAIN msgs :
       msgs[i].role = "tool" =>
         \E a \in 1..(i - 1) :
           /\ msgs[a].role = "assistant"
           /\ \A j \in (a + 1)..i : msgs[j].role = "tool"
           /\ i - a <= Len(msgs[a].tool_calls)
           /\ msgs[i].name = msgs[a].tool_calls[i - a].name
  /\ \A a \in DOMAIN msgs :
       msgs[a].role = "assistant" =>
         /\ a + Len(msgs[a].tool_calls) <= Len(msgs)
         /\ \A j \in 1..Len(msgs[a].tool_calls) :
              /\ msgs[a + j].role = "tool"
              /\ msgs[a + j].name = msgs[a].tool_calls[j].name

\* C4: when no round is in progress (in particular after the loop), the
\* tool messages of the outbound list and the requests of the assistant
\* messages before them correspond one to one, with the request's name.
C4_ToolMessagesPaired ==
  pc \in { "loop", "done" } => Paired(formatted_messages)

C4_Witness ==
  /\ pc = "done"
  /\ tool_call_count >= 2
  /\ \E i \in DOMAIN formatted_messages : IsToolError(formatted_messages[i])
  /\ \E a \in DOMAIN formatted_messages : Len(formatted_messages[a].tool_calls) >= 2

\* the last n messages of msgs are the results of the requests calls[1..n],
\* behind the assistant message that holds calls
RoundTail(msgs, calls, n) ==
  /\ Len(msgs) > n
  /\ msgs[Len(msgs) - n].role = "assistant"
  /\ msgs[Len(msgs) - n].tool_calls = calls
  /\ \A j \in 1..n :
       /\ msgs[Len(msgs) - n + j].role = "tool"
       /\ msgs[Len(msgs) - n + j].name = calls[j].name

C5_Step ==
  /\ IsPrefix(formatted_messages, formatted_messages')
  /\ (Len(formatted_messages') > Len(formatted_messages)
        /\ Last(formatted_messages').role = "tool")
       => RoundTail(formatted_messages, res.tool_calls, tool_index)
  /\ (n_calls' = n_calls + 1 /\ tool_call_count >= 1)
       => /\ RoundTail(formatted_messages, res.tool_calls, Len(res.tool_calls))
          /\ last_sent' = formatted_messages

\* C5: the assistant message of a round is in the list before any of its
\* tool results is appended, all the results are in the list when the next
\* completion call is issued, and the list only grows at its end.
C5_CausalOrder == [][C5_Step]_vars

C5_Witness ==
  /\ pc = "exec"
  /\ tool_call_count >= 2
  /\ tool_index = 2
  /\ tool_index = Len(res.tool_calls)

\* C6: in the list of every completion call, every system message comes
\* before every user, assistant and tool message.
C6_SystemFirst ==
  \A i, j \in DOMAIN last_sent :
    (last_sent[i].role = "system" /\ last_sent[j].role # "system") => i < j

\* C6, amended: the list of every completion call starts with the system
\* prompt, goes on with the window-limited history, then the advisor's
\* system message, then only the assistant and tool messages of the turn.
C6_SystemPlacement ==
  n_calls > 0 =>
    LET managed == manage_context_window(messages)
        h == Len(managed)
    IN /\ Len(last_sent) >= h + 2
       /\ last_sent[1] = Message("system", SYSTEM_PROMPT, "", <<>>)
       /\ SubSeq(last_sent, 2, h + 1) = managed
       /\ last_sent[h + 2].role = "system"
       /\ last_sent[h + 2].content[1] = AdvisorMessage(<<>>).content[1]
       /\ \A i \in (h + 3)..Len(last_sent) : last_sent[i].role \in { "assistant", "tool" }

C6_Witness ==
  /\ n_calls >= 2
  /\ Len(messages) = 3
  /\ Len(last_sent) > Len(messages) + 2
  /\ last_sent[Len(messages) + 2].role = "system"

C7_Step ==
  /\ (pc = "exec" /\ formatted_messages' # formatted_messages)
       => /\ formatted_messages' =
               Append(formatted_messages, Last(formatted_messages'))
          /\ Last(formatted_messages').role = "tool"
          /\ Last(formatted_messages').name = res.tool_calls[tool_index + 1].name
          /\ tool_index' = tool_index + 1
          /\ pc' = "exec"
          /\ raised' = FALSE
  /\ (pc = "exec" /\ tool_index' # tool_index)
       => formatted_messages' # formatted_messages
  /\ (pc = "exec" /\ pc' # "exec")
       => /\ n_calls' = n_calls + 1
          /\ ran = res.tool_calls

\* C7: a tool call that raises does not end the loop: the step appends
\* exactly one tool message for the call (the error text), the for loop goes
\* on with the next call, and the round is left only by the follow-up
\* completion call, after every call of the round has been executed.
C7_ToolErrorsContained == [][C7_Step]_vars

C7_Witness ==
  /\ n_calls >= 2
  /\ \E i \in 1..(Len(last_sent) - 1) :
       /\ IsToolError(last_sent[i])
       /\ last_sent[i + 1].role = "tool"
       /\ ~IsToolError(last_sent[i + 1])

\* C8: for a request whose name is not one of the nine advertised tools no
\* callable of ChatbotFunctions is invoked, and its tool message is an error.
C8_OnlyToolsInvoked ==
  /\ \A i \in DOMAIN invoked : invoked[i] \in ToolNames
  /\ \A i \in DOMAIN formatted_messages :
       (formatted_messages[i].role = "tool" /\ formatted_messages[i].name \notin ToolNames)
         => IsToolError(formatted_messages[i])

\* C9: get_response never raises: it ends with a text as its answer, also
\* when the advisor, a completion call or a tool call fails.
C9_NeverRaises ==
  mode = "sync" =>
    /\ raised = FALSE
    /\ pc = "done" =>
         response \in { <<>>, ContentPiece, BudgetText, FollowUpErrorText, OuterErrorText }

C9_Witness ==
  /\ mode = "sync"
  /\ pc = "done"
  /\ response = OuterErrorText
  /\ Last(formatted_messages).content = AdvisorMessage(AdvisorErrorText).content

\* C10: in get_response_stream no tool call is executed before the stream of
\* its response has been read to the end, and no tool call carried by a chunk
\* of a response is left out.
C10_AllChunksUsed ==
  mode = "stream" =>
    /\ ran # <<>> => unread = 0
    /\ skipped = 0

(***************************************************************************)
(* ChatbotFunctions.make_reservation on the reservation store              *)
(***************************************************************************)
\* the orchestration state when no turn of the loop is under study
C27_Step ==
  (ran' # ran /\ ran' # <<>>) =>
    LET k == Len(ran') IN
      /\ k = Len(ran) + 1
      /\ IsPrefix(ran, ran')
      /\ IsPrefix(ran', res.tool_calls)
      /\ Len(formatted_messages') = Len(formatted_messages) + 1
      /\ IsPrefix(formatted_messages, formatted_messages')
      /\ RoundTail(formatted_messages', res.tool_calls, k)
      /\ Last(formatted_messages') \in
           { ToolMessage(res.tool_calls[k], [invoked |-> TRUE, raised |-> FALSE]),
             ToolMessage(res.tool_calls[k], [invoked |-> FALSE, raised |-> TRUE]) }

\* C27: the tool calls of a round are executed one at a time in the order of
\* the requests of the round's response, and the k-th tool message behind
\* the round's assistant message is the result (or the error) of the k-th
\* request.
C27_RequestOrder == [][C27_Step]_vars

C27_Witness ==
  /\ pc = "exec"
  /\ Len(ran) = 2
  /\ ran = res.tool_calls
  /\ ran[1].name # ran[2].name
  /\ RoundTail(formatted_messages, ran, 2)

\* C28: get_response does not return the empty string.
C28_NeverEmpty ==
  (mode = "sync" /\ pc = "done" /\ ~raised) => response # <<>>

LoopUnused ==
  /\ mode = "sync"
  /\ pc = "start"
  /\ messages = <<>>
  /\ formatted_messages = <<>>
  /\ res = NoMessage
  /\ tool_index = 0
  /\ tool_call_count = 0
  /\ response = <<>>
  /\ raised = FALSE
  /\ yielded = <<>>
  /\ n_calls = 0
  /\ last_sent = <<>>
  /\ invoked = <<>>
  /\ oddities = 0
  /\ all_requested = TRUE
  /\ ran = <<>>
  /\ skipped = 0
  /\ unread = 0

\* Scenario "arguments": one turn calls with the arguments offered, any of
\* Arguments, on a store of InitialStores.  Scenario "sharing": the turns of
\* both processes call, with SharedArguments, on a store that starts empty.  (The checks read the arguments and the catalog only, so
\* what other turns do has no part in them.)
ActiveTurns == IF scenario = "arguments" THEN { "a1" } ELSE Turns

Inputs == IF scenario = "arguments" THEN { offered } ELSE SharedArguments

\* lines 176-177, at import, with the store as it is then
ReservationInit ==
  /\ LoopUnused
  /\ MatchUnused
  /\ ToolsUnused
  /\ AppUnused
  /\ \/ scenario = "arguments" /\ offered \in Arguments
     \/ scenario = "sharing" /\ offered = NoArguments
  /\ \E records \in (IF scenario = "arguments" THEN InitialStores ELSE { <<>> }) :
       /\ file = ListFile(records)
       /\ reservations_data = [p \in Procs |-> records]
  /\ call_pc = [t \in Turns |-> "idle"]
  /\ call_args = [t \in Turns |-> NoArguments]
  /\ call_result = [t \in Turns |-> NoResult]
  /\ file_buffer = [t \in Turns |-> <<>>]
  /\ booked = 0
  /\ concurrent = [t \in Turns |-> {}]
  /\ file_before = [t \in Turns |-> ListFile(<<>>)]
  /\ retry = [t \in Turns |-> FALSE]

\* lines 176-177: a process is started again and loads the file (json.load
\* raises on a file that holds no list, and the process does not come up)
Import(p) ==
  /\ \A t \in Turns : ProcOf[t] = p => call_pc[t] = "idle"
  /\ file.state = "list"
  /\ reservations_data' = [reservations_data EXCEPT ![p] = file.records]
  /\ UNCHANGED << scenario, offered, file, call_pc, call_args, call_result,
                  file_buffer, booked, concurrent, file_before, retry >>
  /\ UNCHANGED << loopvars, matchvars, toolvars, appvars >>

\* mutant: the record is appended before the checks are made
AppendedListUnchecked(records, a, verdict) ==
  IF IsDict(a.time_slot) THEN Append(records, new_reservation(a)) ELSE records

\* line 721: the list after the checks: the record is appended when the call
\* got past all of them
AppendedList(records, a, verdict) ==
  IF verdict = Valid THEN Append(records, new_reservation(a)) ELSE records

\* lines 641-721: the checks and, past them, the append to the list
MakeReservation(t) ==
  /\ t \in ActiveTurns
  /\ call_pc[t] = "idle"
  /\ \E a \in Inputs :
       LET verdict == Validation(a) IN
         /\ call_args' = [call_args EXCEPT ![t] = a]
         /\ file_before' =
              IF verdict = Valid THEN [file_before EXCEPT ![t] = file] ELSE file_before
         /\ concurrent' =
              IF verdict = Valid
                THEN [u \in Turns |->
                        IF u = t THEN { v \in Turns \ { t } : call_pc[v] # "idle" }
                        ELSE IF call_pc[u] # "idle" THEN concurrent[u] \cup { t }
                        ELSE concurrent[u]]
                ELSE concurrent
         /\ retry' =
              [retry EXCEPT
                 ![t] = /\ verdict = Valid
                        /\ call_result[t] = Raises(OSErrorText)
                        /\ call_args[t] = a]
         /\ reservations_data' =
              [reservations_data EXCEPT
                 ![ProcOf[t]] = AppendedList(@, a, verdict)]
         /\ IF verdict = Valid
              THEN /\ booked < MaxBookings
                   /\ booked' = booked + 1
                   /\ call_pc' = [call_pc EXCEPT ![t] = "appended"]
                   /\ call_result' = [call_result EXCEPT ![t] = NoResult]
              ELSE /\ call_result' = [call_result EXCEPT ![t] = verdict]
                   /\ UNCHANGED << call_pc, booked >>
  /\ UNCHANGED << scenario, offered, file, file_buffer >>
  /\ UNCHANGED << loopvars, matchvars, toolvars, appvars >>

\* line 722: open(..., "w") empties the file
OpenFile(t) ==
  /\ call_pc[t] = "appended"
  /\ file' = EmptyFile
  /\ call_pc' = [call_pc EXCEPT ![t] = "opened"]
  /\ UNCHANGED << scenario, offered, reservations_data, call_args, call_result,
                  file_buffer, booked, concurrent, file_before, retry >>
  /\ UNCHANGED << loopvars, matchvars, toolvars, appvars >>

\* line 723: json.dump writes the text of the process's list, as the list is
\* when the encoder reaches its end, into the file object
Dump(t) ==
  /\ call_pc[t] = "opened"
  /\ file_buffer' = [file_buffer EXCEPT ![t] = reservations_data[ProcOf[t]]]
  /\ call_pc' = [call_pc EXCEPT ![t] = "dumped"]
  /\ UNCHANGED << scenario, offered, reservations_data, file, call_args,
                  call_result, booked, concurrent, file_before, retry >>
  /\ UNCHANGED << loopvars, matchvars, toolvars, appvars >>

\* mutant: the write keeps the records the file holds and adds its own last one
FlushedMerging(buffer, current) ==
  IF current.state = "list" /\ buffer # <<>>
    THEN { ListFile(Append(current.records, buffer[Len(buffer)])) }
    ELSE { ListFile(buffer) }

\* The text of the file object is written from offset 0 over what the file
\* holds by then, without cutting the file again: the file is the text
\* written when nothing longer lies under it, and else the written text with
\* the rest of the other text behind it.  (The text of a list that extends
\* another list is longer; of two other lists either may be the longer.)
Flushed(buffer, current) ==
  IF current.state = "empty" \/ (current.state = "list" /\ IsPrefix(current.records, buffer))
    THEN { ListFile(buffer) }
    ELSE IF current.state = "list" /\ IsPrefix(buffer, current.records)
      THEN { TornFile }
      ELSE { ListFile(buffer), TornFile }

\* lines 722-732: the with block is left, the file object is flushed and
\* closed, and the call returns the success result
CloseFile(t) ==
  /\ call_pc[t] = "dumped"
  /\ file' \in Flushed(file_buffer[t], file)
  /\ file_buffer' = [file_buffer EXCEPT ![t] = <<>>]
  /\ call_pc' = [call_pc EXCEPT ![t] = "idle"]
  /\ call_result' = [call_result EXCEPT ![t] = Success(new_reservation(call_args[t]))]
  /\ file_before' = [file_before EXCEPT ![t] = ListFile(<<>>)]
  /\ UNCHANGED << scenario, offered, reservations_data, call_args, booked,
                  concurrent, retry >>
  /\ UNCHANGED << loopvars, matchvars, toolvars, appvars >>

\* mutant: the record appended last is taken off the list again
ListAfterFailureRolledBack(records) ==
  IF records = <<>> THEN records ELSE SubSeq(records, 1, Len(records) - 1)

\* lines 721-723: no except clause stands around the write, and nothing takes
\* the record off the list when the write raises
ListAfterFailure(records) == records

\* lines 722-723: open, json.dump or the flush raises OSError, which leaves
\* make_reservation; text written before it stays in the file
PersistFails(t) ==
  /\ call_pc[t] \in { "appended", "opened", "dumped" }
  /\ file' \in (IF call_pc[t] = "appended" THEN { file } ELSE { file, TornFile })
  /\ file_buffer' = [file_buffer EXCEPT ![t] = <<>>]
  /\ call_pc' = [call_pc EXCEPT ![t] = "idle"]
  /\ call_result' = [call_result EXCEPT ![t] = Raises(OSErrorText)]
  /\ file_before' = [file_before EXCEPT ![t] = ListFile(<<>>)]
  /\ reservations_data' =
       [reservations_data EXCEPT ![ProcOf[t]] = ListAfterFailure(@)]
  /\ UNCHANGED << scenario, offered, call_args, booked, concurrent, retry >>
  /\ UNCHANGED << loopvars, matchvars, toolvars, appvars >>

ReservationNext ==
  \/ \E p \in Procs : Import(p)
  \/ \E t \in Turns : MakeReservation(t)
  \/ \E t \in Turns : OpenFile(t)
  \/ \E t \in Turns : Dump(t)
  \/ \E t \in Turns : CloseFile(t)
  \/ \E t \in Turns : PersistFails(t)

ReservationSpec == ReservationInit /\ [][ReservationNext]_vars

(***************************************************************************)
(* Properties of make_reservation and the reservation store                *)
(***************************************************************************)
\* the turn's latest call has returned or raised
Completed(t) == call_pc[t] = "idle" /\ call_result[t] # NoResult

\* the step is the end of a call of turn t that did not get past the checks
RejectedStep(t) ==
  /\ call_pc[t] = "idle"
  /\ call_pc'[t] = "idle"
  /\ << call_args[t], call_result[t] >> # << call_args'[t], call_result'[t] >>

\* the step is the end of a call of turn t
CompletionStep(t) == RejectedStep(t) \/ (call_pc[t] # "idle" /\ call_pc'[t] = "idle")

Range(s) == { s[i] : i \in DOMAIN s }

\* the error of the first check that fails, in the order restaurant, phone
\* number, headcount positive, headcount within capacity, time slot, hour,
\* minute; <<>> when none fails
FirstFailure(a) ==
  IF MatchingRestaurant(a.restaurant) = 0 THEN RestaurantError
  ELSE IF ~(IsStr(a.phone_number) /\ TenDigits(a.phone_number.v)) THEN PhoneError
  ELSE IF ~IsInt(a.headcount) \/ a.headcount.v <= 0 THEN HeadcountError
  ELSE IF a.headcount.v > Capacity(a.restaurant)
    THEN CapacityError(Capacity(a.restaurant))
  ELSE TimeSlotCheck(a).error

\* C11: a call of make_reservation returns the error of the first failing
\* check in the order restaurant, phone number, headcount positive, headcount
\* within capacity, hour, minute; a restaurant that is not in the catalog
\* gives the restaurant error whatever the other arguments are.
C11_FirstFailureWins ==
  \A t \in Turns :
    (Completed(t) /\ FirstFailure(call_args[t]) # <<>>)
      => call_result[t] = Failure(FirstFailure(call_args[t]))

C12_Step ==
  \A t \in Turns :
    (RejectedStep(t) /\ ~call_result'[t].success)
      => /\ reservations_data' = reservations_data
         /\ file' = file

\* C12: a call of make_reservation that ends at one of its checks (with an
\* error result, or with the exception a check raises) leaves the list of
\* every process and the file as they were.
C12_RejectionLeavesStore == [][C12_Step]_vars

C12_Witness ==
  /\ file.state = "list"
  /\ file.records # <<>>
  /\ \E t \in Turns :
       /\ Completed(t)
       /\ call_args[t].phone_number = PyStr(<<"1", "2", "3", "4", "5">>)
       /\ call_result[t] = Failure(PhoneError)

\* every argument but headcount passes its checks, and headcount is an int
OtherwiseValid(a) ==
  /\ PlaceholderCheck(a) = Valid
  /\ MatchingRestaurant(a.restaurant) # 0
  /\ PhoneCheck(a) = Valid
  /\ TimeSlotCheck(a) = Valid
  /\ IsInt(a.headcount)

\* C13: with the other arguments valid and the restaurant's capacity C, the
\* call succeeds only if 1 <= headcount <= C, and then it does succeed (or
\* the write to the file raises); headcount C + 1 and above gives the
\* capacity error with C in it, headcount below 1 the headcount error.
C13_CapacityBoundary ==
  \A t \in Turns :
    (Completed(t) /\ OtherwiseValid(call_args[t])) =>
      LET h == call_args[t].headcount.v
          C == Capacity(call_args[t].restaurant)
      IN /\ call_result[t].success => (1 <= h /\ h <= C)
         /\ (1 <= h /\ h <= C)
              => (call_result[t].success \/ call_result[t] = Raises(OSErrorText))
         /\ h > C => call_result[t] = Failure(CapacityError(C))
         /\ h < 1 => call_result[t] = Failure(HeadcountError)

C13_Witness ==
  \E t \in Turns :
    /\ Completed(t)
    /\ call_result[t].success
    /\ call_args[t].headcount = PyInt(Capacity(call_args[t].restaurant))

\* a record as the store may hold it (a bool counts as the int it equals)
ValidRecord(r) ==
  /\ MatchingRestaurant(r.restaurant) # 0
  /\ IsStr(r.phone_number)
  /\ Len(r.phone_number.v) = 10
  /\ \A i \in DOMAIN r.phone_number.v : r.phone_number.v[i] \in Digits
  /\ IsInt(r.headcount)
  /\ 1 <= r.headcount.v
  /\ r.headcount.v <= Capacity(r.restaurant)
  /\ IsDict(r.time_slot)
  /\ IsInt(r.time_slot.v.hour)
  /\ r.time_slot.v.hour.v \in 0..23
  /\ IsInt(r.time_slot.v.minute)
  /\ r.time_slot.v.minute.v \in 0..59

\* C14: every record of the store (the list of each process, the file, the
\* text on its way to the file) names a restaurant of the catalog and has a
\* phone number of ten digits, a headcount from 1 to the restaurant's
\* capacity, an hour in 0..23 and a minute in 0..59.
C14_RecordsValid ==
  /\ \A p \in Procs : \A r \in Range(reservations_data[p]) : ValidRecord(r)
  /\ \A r \in Range(file.records) : ValidRecord(r)
  /\ \A t \in Turns : \A r \in Range(file_buffer[t]) : ValidRecord(r)

C14_Witness ==
  /\ file.state = "list"
  /\ Len(file.records) >= 2
  /\ \E t \in Turns :
       /\ Completed(t)
       /\ call_result[t].success
       /\ call_result[t].reservation \in Range(file.records)

C15_Step ==
  \A t \in Turns :
    (CompletionStep(t) /\ \A u \in Turns : call_pc'[u] = "idle")
      => file' = ListFile(reservations_data'[ProcOf[t]])

\* C15: when a call of make_reservation has ended, whatever its outcome, and
\* no other call is in progress, the file holds exactly the list of the
\* process that made the call.
C15_FileEqualsList == [][C15_Step]_vars

C16_Step ==
  file' # file =>
    \/ file' \in { EmptyFile, TornFile }
    \/ \E t \in Turns :
         /\ call_pc[t] = "dumped"
         /\ call_pc'[t] = "idle"
         /\ file' = ListFile(file_buffer[t])
         /\ IsPrefix(file_buffer[t], reservations_data[ProcOf[t]])

\* C16: no write waits for or merges with another: whatever other calls have
\* written meanwhile, the list a call leaves in the file is the list of its
\* own process as the call dumped it; so two overlapping calls can both
\* succeed and leave a file without the record of one of them (the witness).
C16_WholeStoreWrite == [][C16_Step]_vars

C16_Witness ==
  /\ \A u \in Turns : call_pc[u] = "idle"
  /\ file.state = "list"
  /\ \E t1, t2 \in Turns :
       /\ t1 # t2
       /\ t2 \in concurrent[t1]
       /\ call_result[t1].success
       /\ call_result[t2].success
       /\ call_result[t1].reservation \notin Range(file.records)
       /\ call_result[t2].reservation \in Range(file.records)

C17_Step ==
  \A t \in Turns :
    (/\ call_pc[t] = "dumped"
     /\ call_pc'[t] = "idle"
     /\ call_result'[t].success
     /\ concurrent[t] = {}
     /\ file_before[t].state = "list")
      => /\ file'.state = "list"
         /\ IsPrefix(file_before[t].records, file'.records)
         /\ file'.records # <<>>
         /\ Last(file'.records) = call_result'[t].reservation

\* C17: a booking that no other booking overlaps leaves in the file every
\* record the file held when the booking began, unchanged and in the same
\* order, and the new record at the end.
C17_RecordsKept == [][C17_Step]_vars

\* ---------------------------------------------------------------------
\* get_matching_locations
\* ---------------------------------------------------------------------

MIN_CONFIDENCE_THRESHOLD == 70

\* the default of the parameter top_n
top_n == 5

\* the longest catalog
MaxAreas == 6

Max(S) == CHOOSE x \in S : \A y \in S : y <= x

\* strings are sequences of characters; none here is empty
HSR == <<"H", "S", "R">>

HSRL == <<"H", "S", "R", "L">>

BTM == <<"B", "T", "M">>

\* a record of the catalog in the area named
Place(name) == [location |-> TRUE, area |-> name]

\* a record of the catalog that has no "location" key
NoLocation == [location |-> FALSE, area |-> <<>>]

Places == { Place(HSR), Place(HSRL), Place(BTM), NoLocation }

Catalogs == UNION { [1..n -> Places] : n \in 1..MaxAreas }

\* the queries: two areas of the catalog, a misspelling that is near HSRL
\* only, one that is near nothing, and a name that shares no letter
Queries == { HSR, HSRL, <<"H", "S", "R", "X">>, <<"H", "B", "R">>, <<"J", "P">> }

\* the length of the longest common subsequence of s and t
RECURSIVE LCS(_, _)
LCS(s, t) ==
  IF s = <<>> \/ t = <<>> THEN 0
  ELSE IF Head(s) = Head(t) THEN 1 + LCS(Tail(s), Tail(t))
  ELSE Max({ LCS(Tail(s), t), LCS(s, Tail(t)) })

\* fuzz.ratio: the normalized Indel similarity, 100 * 2 * LCS / (|s| + |t|),
\* here in hundredths of a point, rounded down
ratio(s, t) == (20000 * LCS(s, t)) \div (Len(s) + Len(t))

\* the pieces of long that partial_ratio aligns short with: every window of
\* the length of short, and the shorter ones at both ends of long
Windows(short, long) ==
  { SubSeq(long, i, j) :
      << i, j >> \in { w \in (1..Len(long)) \X (1..Len(long)) :
                         /\ w[1] <= w[2]
                         /\ \/ w[2] - w[1] + 1 = Len(short)
                            \/ w[1] = 1 /\ w[2] < Len(short)
                            \/ w[2] = Len(long) /\ w[2] - w[1] + 1 < Len(short) } }

\* the best ratio of short against a piece of long
BestAlignment(short, long) == Max({ ratio(short, w) : w \in Windows(short, long) })

\* fuzz.partial_ratio of two strings that are not empty; strings of one
\* length are aligned both ways
partial_ratio(s1, s2) ==
  IF Len(s1) < Len(s2) THEN BestAlignment(s1, s2)
  ELSE IF Len(s1) > Len(s2) THEN BestAlignment(s2, s1)
  ELSE Max({ BestAlignment(s1, s2), BestAlignment(s2, s1) })

\* fuzz.partial_ratio(q, a) for every query and every area of the model
Scores ==
  [q \in Queries, a \in { HSR, HSRL, BTM } |-> partial_ratio(q, a)]

\* areas = [pair[0] for pair in area_place_pairs]
areas(data) == [i \in DOMAIN data |-> data[i].area]

\* the number of choices process.extract lists before choice i: those of a
\* higher score, and those of the same score that come earlier
Rank(q, choices, i) ==
  Cardinality({ j \in DOMAIN choices :
                  \/ Scores[q, choices[j]] > Scores[q, choices[i]]
                  \/ /\ Scores[q, choices[j]] = Scores[q, choices[i]]
                     /\ j < i })

\* process.extract(q, choices, scorer=fuzz.partial_ratio, limit=limit): the
\* limit best choices, by their index in choices, best first
extract(q, choices, limit) ==
  [k \in 1..(IF Len(choices) < limit THEN Len(choices) ELSE limit) |->
     CHOOSE i \in DOMAIN choices : Rank(q, choices, i) = k - 1]

\* mutant: every score passes
AboveThresholdAlways(score) == score >= 0

\* score >= cls.MIN_CONFIDENCE_THRESHOLD, for a score in hundredths
AboveThreshold(score) == score >= MIN_CONFIDENCE_THRESHOLD * 100

\* the matches of at least MIN_CONFIDENCE_THRESHOLD, in the order of matches
RECURSIVE filtered_matches(_, _, _)
filtered_matches(q, choices, matches) ==
  IF matches = <<>> THEN <<>>
  ELSE IF AboveThreshold(Scores[q, choices[Head(matches)]])
    THEN << Head(matches) >> \o filtered_matches(q, choices, Tail(matches))
  ELSE filtered_matches(q, choices, Tail(matches))

\* the sentence returned when no match is left
NoLocationsText == [format |-> "text", keys |-> {}, status |-> "", locations |-> <<>>]

\* json.dumps({"status": "success", "message": ..., "locations": area_names,
\* "instruction": ...})
LocationsFound(area_names) ==
  [format |-> "json", keys |-> { "status", "message", "locations", "instruction" },
   status |-> "success", locations |-> area_names]

\* json.dumps({"status": "error", "message": ...}) of the except clause
LocationsError ==
  [format |-> "json", keys |-> { "status", "message" }, status |-> "error",
   locations |-> <<>>]

\* what get_matching_locations(q, limit) returns with the catalog data
get_matching_locations(data, q, limit) ==
  IF \E i \in DOMAIN data : ~data[i].location THEN LocationsError
  ELSE LET filtered == filtered_matches(q, areas(data), extract(q, areas(data), limit))
       IN IF filtered = <<>> THEN NoLocationsText
          ELSE LocationsFound([k \in DOMAIN filtered |-> data[filtered[k]].area])

MatchInit ==
  /\ LoopUnused
  /\ ReservationUnused
  /\ ToolsUnused
  /\ AppUnused
  /\ restaurants_data \in Catalogs
  /\ area \in Queries
  /\ top_matches = <<>>
  /\ match_result = NoMatchResult

\* one call get_matching_locations(area), top_n left at its default
GetMatchingLocations ==
  /\ match_result = NoMatchResult
  /\ top_matches' =
       IF \E i \in DOMAIN restaurants_data : ~restaurants_data[i].location THEN <<>>
       ELSE extract(area, areas(restaurants_data), top_n)
  /\ match_result' = get_matching_locations(restaurants_data, area, top_n)
  /\ UNCHANGED << restaurants_data, area >>
  /\ UNCHANGED << loopvars, resvars, toolvars, appvars >>

MatchNext == GetMatchingLocations

MatchSpec == MatchInit /\ [][MatchNext]_vars

\* the call has returned
Returned == match_result # NoMatchResult

\* every record of the catalog has its area
WellFormed == \A i \in DOMAIN restaurants_data : restaurants_data[i].location

\* C18: a call with the area of a record of the catalog returns a success
\* result whose locations contain that area, whatever else the catalog holds.
C18_ExactAreaListed ==
  (/\ Returned
   /\ WellFormed
   /\ \E i \in DOMAIN restaurants_data : restaurants_data[i].area = area)
    => /\ match_result.status = "success"
       /\ area \in Range(match_result.locations)

\* C19: when no area of the catalog scores 70 or more against the query, the
\* call returns a structured result of status error with an empty list of
\* locations.
C19_NoMatchIsErrorResult ==
  (/\ Returned
   /\ WellFormed
   /\ \A i \in DOMAIN restaurants_data :
        Scores[area, restaurants_data[i].area] < MIN_CONFIDENCE_THRESHOLD * 100)
    => /\ match_result.format = "json"
       /\ match_result.status = "error"
       /\ "locations" \in match_result.keys
       /\ match_result.locations = <<>>

\* C20: no area is twice in the locations of a result.
C20_LocationsDeduplicated ==
  Returned =>
    \A i, j \in DOMAIN match_result.locations :
      match_result.locations[i] = match_result.locations[j] => i = j

\* C21: every area of a success result scores MIN_CONFIDENCE_THRESHOLD or
\* more against the query, and the result has at most top_n areas.
C21_ThresholdAndLimit ==
  (Returned /\ match_result.status = "success")
    => /\ Len(match_result.locations) <= top_n
       /\ \A name \in Range(match_result.locations) :
            Scores[area, name] >= MIN_CONFIDENCE_THRESHOLD * 100

\* a catalog longer than top_n, cut to top_n matches of which one is dropped
\* for its score
C21_Witness ==
  /\ Returned
  /\ match_result.status = "success"
  /\ Len(restaurants_data) > top_n
  /\ Len(top_matches) = top_n
  /\ Len(match_result.locations) < top_n
  /\ \E name \in Range(match_result.locations) : Scores[area, name] < 10000

\* how many times x is in the sequence s
Count(x, s) == Cardinality({ i \in DOMAIN s : s[i] = x })

\* what the checks of make_reservation can end a call with
ValidationOutcomes == { Validation(a) : a \in Arguments } \ { Valid }

\* the step ends a call of turn t whose write failed
FailedWriteStep(t) ==
  /\ call_pc[t] # "idle"
  /\ call_pc'[t] = "idle"
  /\ ~call_result'[t].success

\* C29 as it is claimed: after a call whose write failed the list of the
\* process has the new record and the file does not have it (no turn has
\* called with the same arguments, so the record is that of this call).
C29_FailedWriteNotStored ==
  [][\A t \in Turns :
       (FailedWriteStep(t) /\ \A u \in Turns \ { t } : call_args[u] # call_args[t])
         => LET r == new_reservation(call_args[t]) IN
              /\ Count(r, reservations_data'[ProcOf[t]]) >= 1
              /\ file'.state = "list"
                   => Count(r, file'.records) < Count(r, reservations_data'[ProcOf[t]])]_vars

C29_Step ==
  \A t \in Turns :
    FailedWriteStep(t) =>
      /\ call_result'[t] = Raises(OSErrorText)
      /\ call_result'[t] \notin ValidationOutcomes
      /\ reservations_data' = reservations_data
      /\ new_reservation(call_args[t]) \in Range(reservations_data'[ProcOf[t]])
      /\ (concurrent[t] = {} /\ file'.state = "list") => file' = file_before[t]

\* C29: a call of make_reservation that passed every check and whose write
\* fails ends in an OSError, which no check ends a call with, and not in the
\* success result; the list of the process keeps the new record; and when no
\* other booking overlaps the call, the file holds what it held when the
\* call began, or no list at all.
C29_FailedWriteKeepsList == [][C29_Step]_vars

C29_Witness ==
  \E t \in Turns :
    /\ Completed(t)
    /\ call_result[t] = Raises(OSErrorText)
    /\ concurrent[t] = {}
    /\ file = ListFile(<<>>)
    /\ reservations_data[ProcOf[t]] = << new_reservation(call_args[t]) >>

\* C30: after a booking whose write failed has been repeated with the same
\* arguments and the repeat has succeeded (no other turn has called), the
\* list of the process and the file hold the record once.
C30_RetryStoresOnce ==
  \A t \in Turns :
    (/\ Completed(t)
     /\ call_result[t].success
     /\ retry[t]
     /\ \A u \in Turns \ { t } : call_args[u] = NoArguments)
      => /\ Count(call_result[t].reservation, reservations_data[ProcOf[t]]) = 1
         /\ file.state = "list"
         /\ Count(call_result[t].reservation, file.records) = 1

(***************************************************************************)
(* The lookup tools of ChatbotFunctions                                    *)
(***************************************************************************)
\* the longest catalog the lookup tools are called on
MaxRecords == 2

\* the characters of the model's strings, in the order of their code points
CodePoints ==
  << "\t", "\n", " ", "'" >> \o UpperCase \o LowerCase

\* s < t for two strings
RECURSIVE StrLess(_, _)
StrLess(s, t) ==
  IF t = <<>> THEN FALSE
  ELSE IF s = <<>> THEN TRUE
  ELSE IF Head(s) = Head(t) THEN StrLess(Tail(s), Tail(t))
  ELSE LET Ord(c) == CHOOSE i \in DOMAIN CodePoints : CodePoints[i] = c
       IN Ord(Head(s)) < Ord(Head(t))

\* sorted(list(S)) for a set S of strings
RECURSIVE sorted(_)
sorted(S) ==
  IF S = {} THEN <<>>
  ELSE LET least == CHOOSE x \in S : \A y \in S \ { x } : StrLess(x, y)
       IN << least >> \o sorted(S \ { least })

RECURSIVE LStrip(_)
LStrip(s) == IF s # <<>> /\ Head(s) \in { " ", "\t", "\n" } THEN LStrip(Tail(s)) ELSE s

RECURSIVE RStrip(_)
RStrip(s) ==
  IF s # <<>> /\ s[Len(s)] \in { " ", "\t", "\n" }
    THEN RStrip(SubSeq(s, 1, Len(s) - 1))
    ELSE s

\* mutant: only the whitespace in front is taken off
StripFront(s) == LStrip(s)

\* str.strip
Strip(s) == RStrip(LStrip(s))

\* mutant: the strings are compared as they are
SameAreaExact(a, b) == a = b

\* area.lower() == rest_location, rest_location being lowercased
SameArea(a, b) == Lower(a) = Lower(b)

\* an argument that is not given (None)
Absent == << "<None>" >>

Thai == << "T", "h", "a", "i" >>

Goan == << "G", "o", "a", "n" >>

Cozy == << "C", "o", "z", "y" >>

Bar == << "B", "a", "r" >>

\* a record of the catalog: location says that it has location.area; cuisine
\* is a list of labels, one label, or neither; ambience is "" when it has none
Restaurant(name, location, area_name, kind, cuisine, ambience) ==
  [name |-> name, location |-> location, area |-> area_name,
   cuisine |-> [kind |-> kind, v |-> cuisine], ambience |-> ambience]

Records ==
  { Restaurant("r1", TRUE, HSR, "list", << Thai, Goan >>, Cozy),
    Restaurant("r2", TRUE, HSR, "str", << " ", "t", "h", "a", "i", " " >>, Lower(Cozy)),
    Restaurant("r3", TRUE, BTM, "list", <<>>, <<>>),
    Restaurant("r4", TRUE, BTM, "str", Goan, Bar),
    Restaurant("r5", FALSE, <<>>, "list", << Thai >>, Bar),
    Restaurant("r6", TRUE, HSR, "null", <<>>, << "C", "o", "z", "y", " " >>) }

ToolCatalogs == UNION { [1..n -> Records] : n \in 1..MaxRecords }

AreaQueries == { Lower(HSR), BTM, << "J", "P" >> }

CuisineQueries == { << "T", "H", "A", "I", " " >>, Goan, << "U", "d", "o", "n" >>, <<>> }

AmbienceQueries == { Cozy, Lower(Cozy), Bar, << "Z", "e", "n" >> }

\* fuzz.partial_ratio(q, a) for every ambience asked for and every label
AmbienceScores ==
  [q \in AmbienceQueries, a \in { r.ambience : r \in Records } \ { <<>> } |->
     partial_ratio(q, a)]

Call(name, area_name, cuisine, ambience) ==
  [name |-> name, area |-> area_name, cuisine |-> cuisine, ambience |-> ambience]

\* the calls of the lookup tools the model makes
ToolCalls ==
  { Call(fn, a, Absent, Absent) :
      fn \in { "get_cuisine_by_area", "get_ambience_by_area" }, a \in AreaQueries }
    \cup { Call("get_matching_locations", a, Absent, Absent) : a \in { HSR, HSRL } }
    \cup { Call(fn, Absent, Absent, Absent) : fn \in { "get_all_cuisines", "get_all_ambiences" } }
    \cup { Call("get_area_by_cuisine", Absent, c, Absent) : c \in CuisineQueries }
    \cup { Call("get_area_by_ambience", Absent, Absent, a) : a \in AmbienceQueries }
    \cup { Call("recommend_restaurants", a, c, m) :
             a \in AreaQueries, c \in CuisineQueries \cup { Absent },
             m \in AmbienceQueries \cup { Absent } }

\* `if cuisine:`, `if ambience:`: the argument is neither None nor ""
Given(x) == x # Absent /\ x # <<>>

\* restaurant.get("location", {}).get("area", "")
AreaOf(r) == IF r.location THEN r.area ELSE <<>>

\* the labels of the cuisine field, a list or a single string
CuisineLabels(r) ==
  IF r.cuisine.kind = "list" THEN Range(r.cuisine.v)
  ELSE IF r.cuisine.kind = "str" THEN { r.cuisine.v }
  ELSE {}

\* mutant: a cuisine stored as one string is not looked at
NormalizedCuisinesOfLists(r) ==
  IF r.cuisine.kind = "list" THEN { Strip(Lower(c)) : c \in Range(r.cuisine.v) } ELSE {}

\* [c.lower().strip() for c in cuisine_field], or the same of the one string
NormalizedCuisines(r) == { Strip(Lower(c)) : c \in CuisineLabels(r) }

ErrorResult(template, arg) ==
  [status |-> "error", keys |-> { "status", "message" },
   message |-> [template |-> template, arg |-> arg],
   area |-> Absent, cuisine |-> Absent, ambience |-> Absent, items |-> <<>>]

SuccessResult(keys, area_name, cuisine, ambience, items) ==
  [status |-> "success", keys |-> { "status", "instruction" } \cup keys,
   message |-> [template |-> "", arg |-> <<>>],
   area |-> area_name, cuisine |-> cuisine, ambience |-> ambience, items |-> items]

\* the indices of the records in the area asked for
InArea(data, a) == { i \in DOMAIN data : SameArea(a, AreaOf(data[i])) }

get_cuisine_by_area(data, a) ==
  LET cuisines == UNION { CuisineLabels(data[i]) : i \in InArea(data, a) }
  IN IF InArea(data, a) = {}
       THEN ErrorResult("Area '{area}' not found. Please use get_matching_locations first to confirm the area.", a)
     ELSE IF cuisines = {}
       THEN ErrorResult("No cuisines found for area '{area}'. Please try another location.", a)
     ELSE SuccessResult({ "area", "cuisines" }, a, Absent, Absent, sorted(cuisines))

get_ambience_by_area(data, a) ==
  LET ambiences == { data[i].ambience : i \in InArea(data, a) } \ { <<>> }
  IN IF InArea(data, a) = {}
       THEN ErrorResult("Area '{area}' not found. Please use get_matching_locations first to confirm the area.", a)
     ELSE IF ambiences = {}
       THEN ErrorResult("No ambience data found for area '{area}'. Please try another location.", a)
     ELSE SuccessResult({ "area", "ambiences" }, a, Absent, Absent, sorted(ambiences))

get_all_cuisines(data) ==
  LET cuisine_set == UNION { CuisineLabels(data[i]) : i \in DOMAIN data }
  IN IF cuisine_set = {} THEN ErrorResult("No cuisines found in database", <<>>)
     ELSE SuccessResult({ "cuisines", "total_count" }, Absent, Absent, Absent,
                        sorted(cuisine_set))

get_all_ambiences(data) ==
  LET ambience_set == { data[i].ambience : i \in DOMAIN data } \ { <<>> }
  IN IF ambience_set = {} THEN ErrorResult("No ambience data found in database", <<>>)
     ELSE SuccessResult({ "ambiences", "total_count" }, Absent, Absent, Absent,
                        sorted(ambience_set))

get_area_by_cuisine(data, c) ==
  LET found == { i \in DOMAIN data : Strip(Lower(c)) \in NormalizedCuisines(data[i]) }
      found_areas == { AreaOf(data[i]) : i \in found } \ { <<>> }
  IN IF found = {}
       THEN ErrorResult("Cuisine '{cuisine}' not found. Use get_all_cuisines to see available options.", c)
     ELSE IF found_areas = {}
       THEN ErrorResult("No areas found serving '{cuisine}' cuisine.", c)
     ELSE SuccessResult({ "cuisine", "areas" }, Absent, c, Absent, sorted(found_areas))

\* all_ambiences: the ambience of each record that has one, in catalog order
RECURSIVE all_ambiences(_)
all_ambiences(data) ==
  IF data = <<>> THEN <<>>
  ELSE (IF Head(data).ambience # <<>> THEN << Head(data).ambience >> ELSE <<>>)
         \o all_ambiences(Tail(data))

\* process.extractOne(q, choices, scorer=fuzz.partial_ratio): the index of the
\* best choice, the first one of the best score; choices is not empty
extractOne(q, choices) ==
  CHOOSE i \in DOMAIN choices :
    /\ \A j \in DOMAIN choices : AmbienceScores[q, choices[j]] <= AmbienceScores[q, choices[i]]
    /\ \A j \in 1..(i - 1) : AmbienceScores[q, choices[j]] < AmbienceScores[q, choices[i]]

\* matched_ambience: the label the ambience asked for is resolved to, Absent
\* when there is no label or the best one scores below the threshold
matched_ambience(data, m) ==
  LET choices == all_ambiences(data) IN
    IF choices = <<>> THEN Absent
    ELSE IF AboveThreshold(AmbienceScores[m, choices[extractOne(m, choices)]])
      THEN choices[extractOne(m, choices)]
      ELSE Absent

get_area_by_ambience(data, m) ==
  LET matched == matched_ambience(data, m)
      found_areas == { AreaOf(data[i]) : i \in { j \in DOMAIN data : data[j].ambience = matched } }
                       \ { <<>> }
  IN IF all_ambiences(data) = <<>>
       THEN ErrorResult("No ambience data found in database", <<>>)
     ELSE IF matched = Absent
       THEN ErrorResult("Ambience '{ambience}' not found. Use get_all_ambiences to see available options.", m)
     ELSE IF found_areas = {}
       THEN ErrorResult("No areas found with '{matched_ambience}' ambience.", matched)
     ELSE SuccessResult({ "ambience", "areas", "confidence" }, Absent, Absent, matched,
                        sorted(found_areas))

\* lines 548-581: the records that pass the filters, in catalog order
recommendations(data, a, c, m, matched) ==
  SelectSeq(data, LAMBDA r :
    /\ SameArea(a, AreaOf(r))
    /\ Given(c) => /\ r.cuisine.kind \in { "str", "list" }
                   /\ Strip(Lower(c)) \in NormalizedCuisines(r)
    /\ (Given(m) /\ matched # Absent)
         => Strip(Lower(r.ambience)) = Strip(Lower(matched)))

recommend_restaurants(data, a, c, m) ==
  LET matched == IF Given(m) THEN matched_ambience(data, m) ELSE Absent
      found == recommendations(data, a, c, m, matched)
  IN IF InArea(data, a) = {}
       THEN ErrorResult("Area '{area}' not found. Please use get_matching_locations first.", a)
     ELSE IF found = <<>>
       THEN ErrorResult("No restaurants found in '{area}'{filter_msg}.", << a, c, m, matched >>)
     ELSE SuccessResult(
            { "area", "restaurants", "count" }
              \cup (IF Given(c) THEN { "cuisine" } ELSE {})
              \cup (IF Given(m) /\ matched # Absent THEN { "ambience" } ELSE {}),
            a, IF Given(c) THEN c ELSE Absent, matched, found)

\* what the call c of a lookup tool returns with the catalog data
ToolResult(data, c) ==
  CASE c.name = "get_cuisine_by_area" -> get_cuisine_by_area(data, c.area)
    [] c.name = "get_ambience_by_area" -> get_ambience_by_area(data, c.area)
    [] c.name = "get_all_cuisines" -> get_all_cuisines(data)
    [] c.name = "get_all_ambiences" -> get_all_ambiences(data)
    [] c.name = "get_area_by_cuisine" -> get_area_by_cuisine(data, c.cuisine)
    [] c.name = "get_area_by_ambience" -> get_area_by_ambience(data, c.ambience)
    [] c.name = "recommend_restaurants" ->
         recommend_restaurants(data, c.area, c.cuisine, c.ambience)
    [] c.name = "get_matching_locations" ->
         LET result == get_matching_locations(data, c.area, top_n) IN
           [status |-> result.status, keys |-> result.keys,
            message |-> [template |-> result.format, arg |-> <<>>],
            area |-> Absent, cuisine |-> Absent, ambience |-> Absent,
            items |-> result.locations]

\* mutant: the call takes the first record out of the catalog
CatalogAfterConsumed(data) == Tail(data)

\* no tool assigns to __restaurants_data or changes a record of it
CatalogAfter(data) == data

ToolsInit ==
  /\ LoopUnused
  /\ ToolsUnused
  /\ AppUnused
  /\ scenario = "tools"
  /\ offered = NoArguments
  /\ reservations_data = [p \in Procs |-> <<>>]
  /\ file = ListFile(<<>>)
  /\ call_pc = [t \in Turns |-> "idle"]
  /\ call_args = [t \in Turns |-> NoArguments]
  /\ call_result = [t \in Turns |-> NoResult]
  /\ file_buffer = [t \in Turns |-> <<>>]
  /\ booked = 0
  /\ concurrent = [t \in Turns |-> {}]
  /\ file_before = [t \in Turns |-> ListFile(<<>>)]
  /\ retry = [t \in Turns |-> FALSE]
  /\ restaurants_data \in ToolCatalogs
  /\ area = <<>>
  /\ top_matches = <<>>
  /\ match_result = NoMatchResult

\* one call of a lookup tool
CallTool ==
  /\ tool_call = NoCall
  /\ \E c \in ToolCalls :
       /\ tool_call' = c
       /\ tool_result' = ToolResult(restaurants_data, c)
  /\ restaurants_data' = CatalogAfter(restaurants_data)
  /\ UNCHANGED << repeat_result, area, top_matches, match_result >>
  /\ UNCHANGED << loopvars, resvars, appvars >>

\* the same call once more
RepeatCall ==
  /\ tool_call # NoCall
  /\ repeat_result = NoToolResult
  /\ repeat_result' = ToolResult(restaurants_data, tool_call)
  /\ restaurants_data' = CatalogAfter(restaurants_data)
  /\ UNCHANGED << tool_call, tool_result, area, top_matches, match_result >>
  /\ UNCHANGED << loopvars, resvars, appvars >>

\* one whole call of make_reservation, by the one turn of this process, with
\* a write that succeeds: lines 641-732
Book ==
  /\ booked < MaxBookings
  /\ LET a == Booking(1)
         verdict == Validation(a)
         records == AppendedList(reservations_data["p1"], a, verdict)
     IN /\ verdict = Valid
        /\ reservations_data' = [reservations_data EXCEPT !["p1"] = records]
        /\ file' \in Flushed(records, EmptyFile)
        /\ call_args' = [call_args EXCEPT !["a1"] = a]
        /\ call_result' = [call_result EXCEPT !["a1"] = Success(new_reservation(a))]
        /\ booked' = booked + 1
  /\ UNCHANGED << scenario, offered, call_pc, file_buffer, concurrent, file_before,
                  retry >>
  /\ UNCHANGED << loopvars, matchvars, toolvars, appvars >>

ToolsNext == CallTool \/ RepeatCall \/ Book

ToolsSpec == ToolsInit /\ [][ToolsNext]_vars

\* the records of the catalog that are in the area asked for, whatever the case
\* of the letters
RecordsInArea ==
  { i \in DOMAIN restaurants_data :
      /\ restaurants_data[i].location
      /\ Lower(restaurants_data[i].area) = Lower(tool_call.area) }

\* the cuisine labels, or the ambience labels, these records have
AttributesInArea ==
  IF tool_call.name = "get_cuisine_by_area"
    THEN UNION { IF restaurants_data[i].cuisine.kind = "list"
                   THEN Range(restaurants_data[i].cuisine.v)
                 ELSE IF restaurants_data[i].cuisine.kind = "str"
                   THEN { restaurants_data[i].cuisine.v }
                 ELSE {} : i \in RecordsInArea }
    ELSE { restaurants_data[i].ambience : i \in RecordsInArea } \ { <<>> }

AreaNotFound ==
  "Area '{area}' not found. Please use get_matching_locations first to confirm the area."

\* C22: get_cuisine_by_area and get_ambience_by_area answer with a success
\* exactly when some record is in the area and these records have a label of
\* the attribute; with no record in the area they answer with the error "Area
\* ... not found", and with records that have no label with an error of
\* another message
C22_DistinctAreaErrors ==
  tool_call.name \in { "get_cuisine_by_area", "get_ambience_by_area" } =>
    /\ tool_result.status = "success" <=> (RecordsInArea # {} /\ AttributesInArea # {})
    /\ tool_result.status \in { "success", "error" }
    /\ RecordsInArea = {} =>
         tool_result.message = [template |-> AreaNotFound, arg |-> tool_call.area]
    /\ (RecordsInArea # {} /\ AttributesInArea = {}) =>
         /\ tool_result.status = "error"
         /\ tool_result.message.template \notin { AreaNotFound, "" }
         /\ tool_result.message.arg = tool_call.area

\* the area is asked for in small letters, and its records have no cuisine
C22_Witness ==
  /\ tool_call.name = "get_cuisine_by_area"
  /\ tool_call.area = Lower(HSR)
  /\ RecordsInArea # {}
  /\ AttributesInArea = {}
  /\ tool_result.status = "error"

\* s without the whitespace at its two ends
Trimmed(s) ==
  LET inked == { i \in DOMAIN s : s[i] \notin { " ", "\t", "\n" } } IN
    IF inked = {} THEN <<>>
    ELSE SubSeq(s, CHOOSE i \in inked : \A j \in inked : i <= j, Max(inked))

\* the labels of the cuisine field of a record, one string or a list of them
LabelsOf(r) ==
  IF r.cuisine.kind = "str" THEN { r.cuisine.v }
  ELSE IF r.cuisine.kind = "list" THEN { r.cuisine.v[k] : k \in DOMAIN r.cuisine.v }
  ELSE {}

\* the record has a label equal to the cuisine c once both are in small
\* letters and trimmed
Serves(r, c) == \E label \in LabelsOf(r) : Trimmed(Lower(label)) = Trimmed(Lower(c))

\* the areas of the records that serve the cuisine asked for
ServingAreas ==
  { restaurants_data[i].area :
      i \in { j \in DOMAIN restaurants_data :
                /\ restaurants_data[j].location
                /\ Serves(restaurants_data[j], tool_call.cuisine) } }

\* C23: get_area_by_cuisine(c) returns exactly the areas of the records whose
\* cuisine field, one string or a list, has a label equal to c after
\* lowercasing and trimming both; each area once, and an error when there is
\* no such area
C23_ExactAreasOfCuisine ==
  tool_call.name = "get_area_by_cuisine" =>
    /\ tool_result.status = (IF ServingAreas # {} THEN "success" ELSE "error")
    /\ tool_result.status = "success" =>
         /\ Range(tool_result.items) = ServingAreas
         /\ Len(tool_result.items) = Cardinality(ServingAreas)
         /\ tool_result.cuisine = tool_call.cuisine

\* "THAI " has found a record that stores " thai " as one string and a record
\* that stores "Thai" in a list
C23_Witness ==
  /\ tool_call.name = "get_area_by_cuisine"
  /\ tool_call.cuisine = << "T", "H", "A", "I", " " >>
  /\ tool_result.status = "success"
  /\ \E i, j \in DOMAIN restaurants_data :
       /\ restaurants_data[i].cuisine.kind = "str"
       /\ restaurants_data[j].cuisine.kind = "list"
       /\ Serves(restaurants_data[i], tool_call.cuisine)
       /\ Serves(restaurants_data[j], tool_call.cuisine)
  /\ tool_result.items = << HSR >>

\* the ambience labels the catalog has
LabelsPresent ==
  { restaurants_data[i].ambience : i \in DOMAIN restaurants_data } \ { <<>> }

\* the label is a best fuzzy match of the ambience asked for, of 70 or more
Resolves(label) ==
  /\ label \in LabelsPresent
  /\ AmbienceScores[tool_call.ambience, label] >= 70 * 100
  /\ \A other \in LabelsPresent :
       AmbienceScores[tool_call.ambience, other] <= AmbienceScores[tool_call.ambience, label]

\* C24: when recommend_restaurants is called with an ambience and returns a
\* success, the result names in its ambience field the label the argument was
\* resolved to, the best fuzzy match of 70 or more, and every restaurant of
\* the result has exactly that ambience
C24_AmbienceResolved ==
  ( /\ tool_call.name = "recommend_restaurants"
    /\ tool_call.ambience # Absent
    /\ tool_result.status = "success" ) =>
      /\ "ambience" \in tool_result.keys
      /\ Resolves(tool_result.ambience)
      /\ \A k \in DOMAIN tool_result.items :
           tool_result.items[k].ambience = tool_result.ambience

\* the records of the catalog in the area asked for, whatever the case of the
\* letters, that serve the cuisine asked for
InAreaServing ==
  { i \in RecordsInArea : Serves(restaurants_data[i], tool_call.cuisine) }

\* the result holds the records of these indices, each as often as the
\* catalog has it
Holds(indices) ==
  /\ Range(tool_result.items) = { restaurants_data[i] : i \in indices }
  /\ \A r \in Range(tool_result.items) :
       Count(r, tool_result.items) =
         Cardinality({ i \in indices : restaurants_data[i] = r })

\* recommend_restaurants(area, cuisine) has been called and has succeeded
RecommendedByCuisine ==
  /\ tool_call.name = "recommend_restaurants"
  /\ tool_call.cuisine # Absent
  /\ tool_call.ambience = Absent
  /\ tool_result.status = "success"

\* C25, as stated: a success of recommend_restaurants(area, cuisine) holds
\* exactly the records in the area, whatever the case of the letters, whose
\* cuisine labels contain the cuisine, case and whitespace aside
C25_ExactlyAreaAndCuisine == RecommendedByCuisine => Holds(InAreaServing)

\* C25, amended: the same for a cuisine that is not the empty string; with
\* the empty string the cuisine is taken as not given, and the success holds
\* every record in the area and has no cuisine field
C25_ExactlyAreaAndGivenCuisine ==
  RecommendedByCuisine =>
    IF tool_call.cuisine # <<>>
      THEN /\ Holds(InAreaServing)
           /\ tool_result.cuisine = tool_call.cuisine
      ELSE /\ Holds(RecordsInArea)
           /\ "cuisine" \notin tool_result.keys

\* "THAI " in "hsr" has kept a record that stores " thai " as one string and
\* has left out a record of the catalog
C25_Witness ==
  /\ RecommendedByCuisine
  /\ tool_call.cuisine = << "T", "H", "A", "I", " " >>
  /\ tool_call.area = Lower(HSR)
  /\ \E k \in DOMAIN tool_result.items : tool_result.items[k].cuisine.kind = "str"
  /\ Len(tool_result.items) < Len(restaurants_data)

\* one step of the tools: a lookup call leaves the catalog, the reservation
\* list and the reservation file as they are, and the second of two identical
\* lookup calls returns what the first returned; a call of make_reservation
\* adds a record, the second identical call as the first
C26_Step ==
  /\ (tool_call' # tool_call \/ repeat_result' # repeat_result) =>
       /\ restaurants_data' = restaurants_data
       /\ reservations_data' = reservations_data
       /\ file' = file
  /\ repeat_result' # repeat_result => repeat_result' = tool_result
  /\ booked' # booked =>
       /\ restaurants_data' = restaurants_data
       /\ Len(reservations_data'["p1"]) = Len(reservations_data["p1"]) + 1
       /\ booked > 0 =>
            /\ call_args'["a1"] = call_args["a1"]
            /\ Count(Last(reservations_data'["p1"]), reservations_data'["p1"]) = booked + 1

MaxTextLen == 4

\* a text is a sequence of these: the two tags, a letter, a blank, a newline
Pieces == { "<think>", "</think>", "a", " ", "\n" }

Texts == UNION { [1..n -> Pieces] : n \in 0..MaxTextLen }

\* the first index from `from` on where s has the piece, 0 when there is none
FirstAt(s, piece, from) ==
  IF \E i \in from..Len(s) : s[i] = piece
    THEN CHOOSE i \in from..Len(s) : s[i] = piece /\ \A j \in from..(i - 1) : s[j] # piece
    ELSE 0

\* mutant: (.*) is greedy, the segment runs to the last closing tag
ClosingTagLast(s, open) ==
  IF \E i \in (open + 1)..Len(s) : s[i] = "</think>"
    THEN Max({ i \in (open + 1)..Len(s) : s[i] = "</think>" })
    ELSE 0

\* <think>(.*?)</think>: (.*?) is lazy, the segment that opens at `open` runs
\* to the first closing tag behind it
ClosingTag(s, open) == FirstAt(s, "</think>", open + 1)

RECURSIVE Scan(_)
\* re.findall and re.sub, from left to right and without overlap: the
\* contents of the segments, and the text with the segments taken out
Scan(s) ==
  LET open == FirstAt(s, "<think>", 1)
      close == IF open = 0 THEN 0 ELSE ClosingTag(s, open)
  IN IF close = 0 THEN [matches |-> <<>>, rest |-> s]
     ELSE LET behind == Scan(SubSeq(s, close + 1, Len(s))) IN
            [matches |-> << SubSeq(s, open + 1, close - 1) >> \o behind.matches,
             rest |-> SubSeq(s, 1, open - 1) \o behind.rest]

RECURSIVE Join(_)
\* "\n\n".join(thinking_matches)
Join(matches) ==
  IF Len(matches) = 1 THEN matches[1]
  ELSE matches[1] \o << "\n", "\n" >> \o Join(Tail(matches))

parse_thinking_response(t) ==
  [thinking_content |-> IF Scan(t).matches # <<>> THEN Join(Scan(t).matches) ELSE None,
   main_response |-> Strip(Scan(t).rest)]

ParseInit ==
  /\ LoopUnused
  /\ ReservationUnused
  /\ MatchUnused
  /\ ToolsUnused
  /\ EquivUnused
  /\ SessionUnused
  /\ text \in Texts
  /\ thinking_content = None
  /\ main_response = None

ParseThinkingResponse ==
  /\ main_response = None
  /\ thinking_content' = parse_thinking_response(text).thinking_content
  /\ main_response' = parse_thinking_response(text).main_response
  /\ UNCHANGED << text, equivvars, sessionvars >>
  /\ UNCHANGED << loopvars, resvars, matchvars, toolvars >>

ParseNext == ParseThinkingResponse

ParseSpec == ParseInit /\ [][ParseNext]_vars

\* the text has a complete reasoning segment: an opening tag with a closing
\* tag somewhere behind it
HasSegment(t) == \E i, j \in DOMAIN t : i < j /\ t[i] = "<think>" /\ t[j] = "</think>"

\* the pairs (opening tag, closing tag) are the complete segments of the text
\* from left to right: each runs from the first opening tag behind the
\* segment before it to the first closing tag behind that, and no segment is
\* left behind the last
IsSegmentation(segs) ==
  /\ \A k \in DOMAIN segs :
       LET from == IF k = 1 THEN 1 ELSE segs[k - 1][2] + 1 IN
         /\ from <= segs[k][1] /\ segs[k][1] < segs[k][2]
         /\ text[segs[k][1]] = "<think>"
         /\ text[segs[k][2]] = "</think>"
         /\ \A i \in from..(segs[k][1] - 1) : text[i] # "<think>"
         /\ \A i \in (segs[k][1] + 1)..(segs[k][2] - 1) : text[i] # "</think>"
  /\ ~HasSegment(SubSeq(text, IF segs = <<>> THEN 1 ELSE Last(segs)[2] + 1, Len(text)))

\* the contents of the segments with two newlines between them
RECURSIVE Joined(_)
Joined(segs) ==
  IF segs = <<>> THEN <<>>
  ELSE SubSeq(text, segs[1][1] + 1, segs[1][2] - 1)
         \o (IF Len(segs) > 1 THEN << "\n", "\n" >> ELSE <<>>)
         \o Joined(Tail(segs))

\* the text from its i-th piece on, without the pieces of the segments
RECURSIVE Outside(_, _)
Outside(segs, i) ==
  IF i > Len(text) THEN <<>>
  ELSE (IF \E k \in DOMAIN segs : segs[k][1] <= i /\ i <= segs[k][2]
          THEN <<>> ELSE << text[i] >>)
         \o Outside(segs, i + 1)

Segmentations ==
  { segs \in UNION { [1..n -> (DOMAIN text) \X (DOMAIN text)] : n \in 0..(MaxTextLen \div 2) } :
      IsSegmentation(segs) }

\* C31, as stated: parse_thinking_response returns; for a text without a
\* complete reasoning segment it returns no reasoning and the text unchanged
\* as the visible text; with complete segments the reasoning is their
\* contents, in order, joined with a separator
C31_PassThroughUnchanged ==
  main_response # None =>
    /\ ~HasSegment(text) => thinking_content = None /\ main_response = text
    /\ HasSegment(text) => \E segs \in Segmentations : thinking_content = Joined(segs)

\* C31, amended: the visible text is the text without its segments and
\* without the whitespace at its two ends; for a text without a complete
\* segment that is the whole text, trimmed
C31_PassThroughTrimmed ==
  main_response # None =>
    /\ ~HasSegment(text) => thinking_content = None /\ main_response = Trimmed(text)
    /\ HasSegment(text) =>
         \E segs \in Segmentations :
           /\ segs # <<>>
           /\ thinking_content = Joined(segs)
           /\ main_response = Trimmed(Outside(segs, 1))

\* a text with a segment opened and never closed has been passed through, and
\* so has one whose closing tag comes first
C31_Witness ==
  /\ main_response # None
  /\ text = << "<think>", "a" >> \/ text = << "</think>", "a", "<think>" >>
  /\ thinking_content = None
  /\ main_response = text

\* C32: within one call of get_response or get_response_stream at most
\* MAX_TOOL_CALLS_PER_CONVERSATION tool functions are executed in total,
\* however many tool-call requests each response carries
C32_AtMostFiveExecutions == Len(invoked) <= MAX_TOOL_CALLS_PER_CONVERSATION

\* C34: get_response_stream yields the notice of the exhausted budget only
\* when the budget ran out while the model was still requesting tools, never
\* in a turn whose last response came whole and carried no tool-call request
C34_NoticeOnlyWhileRequesting ==
  (mode = "stream" /\ "budget" \in Range(yielded)) =>
    (all_requested \/ "followup_error" \in Range(yielded))

\* C35: when get_response returns the message of the exhausted budget or the
\* message of the failed follow-up call, no reservation was added to the
\* reservation store during the turn
C35_NoReservationOnFailure ==
  (mode = "sync" /\ pc = "done" /\ response \in { BudgetText, FollowUpErrorText }) =>
    booked = 0

(***************************************************************************)
(* chatbot.py: the chat input handler in streaming mode                    *)
(***************************************************************************)
RECURSIVE Consume(_, _, _)
\* lines 351-409: the loop over the chunks of get_response_stream, with
\* full_response and current_section as they are before the first of chunks
Consume(chunks, full, section) ==
  IF chunks = <<>> THEN full
  ELSE LET chunk == Head(chunks) IN
    IF chunk = "marker"                      \* startswith("✨ **Response:**")
      THEN Consume(Tail(chunks), <<>>, "response")
    ELSE IF chunk \in { "executing", "using", "tool_error", "followup_error", "error" }
      THEN Consume(Tail(chunks), full, "tools")   \* starts with a tool emoji or a cross
    ELSE IF section = "response"
      THEN Consume(Tail(chunks), Append(full, chunk), section)
      ELSE Consume(Tail(chunks), full, section)

\* full_response when the generator is exhausted (lines 346-348: it starts
\* empty, in the section "response")
full_response(chunks) == Consume(chunks, <<>>, "response")

\* C36: after a turn in streaming mode the assistant message stored in the
\* session history is the text of the final answer: it holds no progress or
\* status line of get_response_stream, and it holds the budget notice when
\* the generator gave one
C36_StoredAnswerIsFinalAnswer ==
  (mode = "stream" /\ pc = "done") =>
    /\ Range(full_response(yielded)) \subseteq { "content", "budget", "no_response" }
    /\ "budget" \in Range(yielded) => "budget" \in Range(full_response(yielded))

(***************************************************************************)
(* get_response and get_response_stream on the same complete responses     *)
(***************************************************************************)
\* the longest sequence of responses the completion service has ready
MaxScript == 3

\* complete responses: with or without text, with no, one or two requests
ScriptResponses ==
  [content : Contents,
   tool_calls : { <<>> } \cup { << c >> : c \in PlainRequests }
                  \cup { << c, [name |-> "make_reservation",
                                arguments |-> Params("make_reservation"),
                                parses |-> TRUE] >> : c \in PlainRequests }]

Scripts == UNION { [1..n -> ScriptResponses] : n \in 0..MaxScript }

\* after a follow-up response r the while loop tests its condition again:
\* get_response breaks on a response with content (lines 784-790),
\* get_response_stream goes on when the chunk carries tool-call requests
\* (lines 619-628)
Continues(variant, r) ==
  IF variant = "sync" THEN r.content = <<>> ELSE r.tool_calls # <<>>

RECURSIVE Rounds(_, _, _, _, _)
\* the while loop on the response r, with the responses still to come, the
\* rounds done and the calls executed so far; a completion call with no
\* response left raises
Rounds(variant, r, rest, count, calls) ==
  IF ~LoopCondition(r, count)
    THEN [calls |-> calls, rounds |-> count, ended |-> TRUE]
  ELSE IF rest = <<>> \/ ~Continues(variant, Head(rest))
    THEN [calls |-> calls \o r.tool_calls, rounds |-> count + 1, ended |-> TRUE]
  ELSE Rounds(variant, Head(rest), Tail(rest), count + 1, calls \o r.tool_calls)

\* one call of get_response ("sync") or get_response_stream ("stream") with
\* these responses, each streamed as one chunk: the tool calls it executes
\* and the rounds it takes
Run(variant, responses) ==
  IF responses = <<>> \/ Head(responses).tool_calls = <<>>
    THEN [calls |-> <<>>, rounds |-> 0, ended |-> TRUE]
    ELSE Rounds(variant, Head(responses), Tail(responses), 0, <<>>)

EquivInit ==
  /\ LoopUnused
  /\ ReservationUnused
  /\ MatchUnused
  /\ ToolsUnused
  /\ ParseUnused
  /\ SessionUnused
  /\ script \in Scripts
  /\ sync_run = NoRun
  /\ stream_run = NoRun

GetResponse ==
  /\ ~sync_run.ended
  /\ sync_run' = Run("sync", script)
  /\ UNCHANGED << script, stream_run, parsevars, sessionvars >>
  /\ UNCHANGED << loopvars, resvars, matchvars, toolvars >>

GetResponseStream ==
  /\ ~stream_run.ended
  /\ stream_run' = Run("stream", script)
  /\ UNCHANGED << script, sync_run, parsevars, sessionvars >>
  /\ UNCHANGED << loopvars, resvars, matchvars, toolvars >>

EquivNext == GetResponse \/ GetResponseStream

EquivSpec == EquivInit /\ [][EquivNext]_vars

\* C33: on the same conversation and the same complete responses, each
\* streamed as one chunk, get_response and get_response_stream execute the
\* same tool calls with the same arguments in the same order, and end the
\* turn after the same number of rounds
C33_SameToolCallsAndRounds ==
  (sync_run.ended /\ stream_run.ended) =>
    /\ sync_run.calls = stream_run.calls
    /\ sync_run.rounds = stream_run.rounds

(***************************************************************************)
(* chatbot.py: the session, its threads and the thread store               *)
(***************************************************************************)
\* the thread ids uuid4 can give in one behaviour
MaxThreads == 3

\* the exchanges a thread can hold
MaxExchanges == 2

ThreadIds == 1..MaxThreads

\* no file of that id in the threads directory
NoFile == << "<no file>" >>

\* get_all_threads: the ids of the files in the thread store
get_all_threads(store) == { id \in ThreadIds : store[id] # NoFile }

\* save_thread
save_thread(store, id, msgs) == [store EXCEPT ![id] = msgs]

\* lines 68-74 and 86-92: the current thread is saved if it has messages
SaveCurrent(store) ==
  IF session_messages # <<>> /\ current_thread_id # 0
    THEN save_thread(store, current_thread_id, session_messages)
    ELSE store

\* mutant: get_response leaves its system prompt in the list of the caller
CallerListShared(msgs) == << "system" >> \o msgs

\* what get_response and get_response_stream leave in the list they are
\* given: they work on formatted_messages, a list of their own
CallerList(msgs) == msgs

\* lines 332 and 452: the user message, the call, the assistant message
Exchange(msgs) == Append(CallerList(Append(msgs, "user")), "assistant")

\* the state after lines 53-63, before the first run of the page reaches line
\* 290: an empty thread store, or one with the thread of an earlier session
SessionInit ==
  /\ LoopUnused
  /\ ReservationUnused
  /\ MatchUnused
  /\ ToolsUnused
  /\ ParseUnused
  /\ EquivUnused
  /\ session_messages = <<>>
  /\ current_thread_id = 0
  /\ threads \in { [id \in ThreadIds |-> NoFile],
                   [id \in ThreadIds |-> IF id = 1 THEN << "user", "assistant" >> ELSE NoFile] }
  /\ threads_list = get_all_threads(threads)
  /\ issued = get_all_threads(threads)
  /\ event = NoEvent

\* create_new_thread, lines 66-81, with the id uuid4 gives and the thread
\* store it finds
create_new_thread(store, id, kind, about) ==
  /\ id \notin issued
  /\ issued' = issued \cup { id }
  /\ threads' = SaveCurrent(store)
  /\ current_thread_id' = id
  /\ session_messages' = <<>>
  /\ threads_list' = get_all_threads(threads')
  /\ event' = [kind |-> kind, id |-> about, ok |-> TRUE]

\* lines 289-291: the first run of the page finds no current thread
PageLoad ==
  /\ current_thread_id = 0
  /\ \E id \in ThreadIds : create_new_thread(threads, id, "load", id)
  /\ UNCHANGED << parsevars, equivvars >>
  /\ UNCHANGED << loopvars, resvars, matchvars, toolvars >>

\* lines 147-150: the button "New Thread"
NewThread ==
  /\ current_thread_id # 0
  /\ \E id \in ThreadIds : create_new_thread(threads, id, "new", id)
  /\ UNCHANGED << parsevars, equivvars >>
  /\ UNCHANGED << loopvars, resvars, matchvars, toolvars >>

\* lines 84-103 and 177-191: the button of a thread of the list
SwitchToThread ==
  /\ current_thread_id # 0
  /\ \E id \in threads_list :
       /\ threads' = SaveCurrent(threads)
       /\ IF threads'[id] # NoFile
            THEN /\ current_thread_id' = id
                 /\ session_messages' = threads'[id]
            ELSE UNCHANGED << current_thread_id, session_messages >>
       /\ event' = [kind |-> "switch", id |-> id, ok |-> threads'[id] # NoFile]
  /\ UNCHANGED << threads_list, issued, parsevars, equivvars >>
  /\ UNCHANGED << loopvars, resvars, matchvars, toolvars >>

\* lines 193-203 and delete_thread: the delete button of a thread of the list
DeleteThread ==
  /\ current_thread_id # 0
  /\ \E id \in threads_list :
       IF threads[id] = NoFile
         THEN /\ event' = [kind |-> "delete", id |-> id, ok |-> FALSE]
              /\ UNCHANGED << session_messages, current_thread_id, threads_list,
                              threads, issued >>
         ELSE IF id = current_thread_id
           THEN \E new \in ThreadIds :
                  create_new_thread([threads EXCEPT ![id] = NoFile], new, "delete", id)
           ELSE /\ threads' = [threads EXCEPT ![id] = NoFile]
                /\ threads_list' = get_all_threads(threads')
                /\ event' = [kind |-> "delete", id |-> id, ok |-> TRUE]
                /\ UNCHANGED << session_messages, current_thread_id, issued >>
  /\ UNCHANGED << parsevars, equivvars >>
  /\ UNCHANGED << loopvars, resvars, matchvars, toolvars >>

\* lines 222-225: the button "Clear Current Chat"
ClearChat ==
  /\ current_thread_id # 0
  /\ session_messages' = <<>>
  /\ event' = [kind |-> "clear", id |-> current_thread_id, ok |-> TRUE]
  /\ UNCHANGED << current_thread_id, threads_list, threads, issued, parsevars,
                  equivvars >>
  /\ UNCHANGED << loopvars, resvars, matchvars, toolvars >>

\* lines 330-489: one user input, answered and saved
ChatInput ==
  /\ current_thread_id # 0
  /\ Len(session_messages) < 2 * MaxExchanges
  /\ session_messages' = Exchange(session_messages)
  /\ threads' = save_thread(threads, current_thread_id, session_messages')
  /\ threads_list' = get_all_threads(threads')
  /\ event' = [kind |-> "input", id |-> current_thread_id, ok |-> TRUE]
  /\ UNCHANGED << current_thread_id, issued, parsevars, equivvars >>
  /\ UNCHANGED << loopvars, resvars, matchvars, toolvars >>

SessionNext ==
  \/ PageLoad
  \/ NewThread
  \/ SwitchToThread
  \/ DeleteThread
  \/ ClearChat
  \/ ChatInput

SessionSpec == SessionInit /\ [][SessionNext]_vars

\* C37: after a thread is deleted successfully through the delete button, it
\* has no file in the thread store and is not in threads_list, the thread
\* that is open with a history included
C37_DeletedThreadGone ==
  (event.kind = "delete" /\ event.ok) =>
    /\ threads[event.id] = NoFile
    /\ event.id \notin threads_list

\* user, assistant, user, assistant, ...
Alternates(msgs) ==
  /\ Len(msgs) % 2 = 0
  /\ \A i \in DOMAIN msgs : msgs[i] = (IF i % 2 = 1 THEN "user" ELSE "assistant")

\* C38: after any user turns, thread switches, new threads and clears, the
\* session history alternates user, assistant, ...: each input has added one
\* user message and one assistant message behind it, and no system or tool
\* message is in the history
C38_HistoryAlternates ==
  /\ Alternates(session_messages)
  /\ \A id \in ThreadIds : threads[id] # NoFile => Alternates(threads[id])

\* a second exchange has been added to a thread while another thread has a
\* file in the store
C38_Witness ==
  /\ event.kind = "input"
  /\ Len(session_messages) = 4
  /\ current_thread_id \in issued
  /\ \E id \in ThreadIds \ { current_thread_id } : threads[id] # NoFile

====
